---- MODULE Spec2Model ----
(***************************************************************************)
(* Verification model of p4_tool: the property block engine                *)
(* (core/file_operations.py, core/core_utils.py), the branch cascade       *)
(* resolvers (core/core_utils.py, core/p4_operations.py, processes/*.py),  *)
(* the workflow runs (processes/*.py) and the GUI worker threads (gui/*.py)*)
(*                                                                         *)
(* Text is modelled as sequences of characters.  A multi-letter word that  *)
(* contains no character the code looks at ("LMKD property", "endif",      *)
(* "PRODUCT_PROPERTY_OVERRIDES") is one element of the sequence, so that   *)
(* strip, split, startswith, endswith and substring search are computed as *)
(* Python computes them on the string.                                     *)
(***************************************************************************)
EXTENDS Integers, Sequences, FiniteSets, TLC

(***************************************************************************)
(* Bounds of the model                                                     *)
(***************************************************************************)
MaxBody == 2
MaxProps == 2
MaxFileBody == 1
MaxEdits == 2
MaxThreads == 2
MaxTargets == 2
MaxSpecLines == 2
MaxPaths == 2
MaxDiffKeys == 2
MaxLogLines == 2

(***************************************************************************)
(* Python string primitives                                                *)
(***************************************************************************)
SP == " "
NL == "\n"
BS == "\\"
EQ == "="
HASH == "#"
PLUS == "+"
PPO == "PRODUCT_PROPERTY_OVERRIDES"

TAB == "\t"

Whitespace == {SP, TAB, NL}

RECURSIVE LStripSet(_, _)
LStripSet(s, cs) ==
    IF s # <<>> /\ Head(s) \in cs THEN LStripSet(Tail(s), cs) ELSE s

RECURSIVE RStripSet(_, _)
RStripSet(s, cs) ==
    IF s # <<>> /\ s[Len(s)] \in cs THEN RStripSet(SubSeq(s, 1, Len(s) - 1), cs) ELSE s

\* str.lstrip(), str.rstrip(), str.strip()
LStrip(s) == LStripSet(s, Whitespace)
RStrip(s) == RStripSet(s, Whitespace)
Strip(s) == LStrip(RStrip(s))

\* c in s, for a single character c
HasChar(s, c) == \E i \in 1..Len(s) : s[i] = c

\* sub in s, for a string sub
Contains(s, sub) ==
    \E i \in 1..(Len(s) - Len(sub) + 1) : SubSeq(s, i, i + Len(sub) - 1) = sub

StartsWith(s, c) == s # <<>> /\ Head(s) = c
EndsWith(s, c) == s # <<>> /\ s[Len(s)] = c

\* index of the first occurrence of character c in s (0 when absent)
IndexOf(s, c) ==
    IF HasChar(s, c) THEN CHOOSE i \in 1..Len(s) : s[i] = c /\ \A j \in 1..(i - 1) : s[j] # c
    ELSE 0

\* s.split(c, 1)[0] and s.split(c, 1)[1], for s containing c
Before(s, c) == SubSeq(s, 1, IndexOf(s, c) - 1)
After(s, c) == SubSeq(s, IndexOf(s, c) + 1, Len(s))

\* s.split(c)[0]: all of s when c is absent
SplitFirst(s, c) == IF HasChar(s, c) THEN Before(s, c) ELSE s

\* line[:len(line) - len(line.lstrip())]
Indentation(line) == SubSeq(line, 1, Len(line) - Len(LStrip(line)))

(***************************************************************************)
(* Python dict (insertion ordered): a sequence of records [k, v] with      *)
(* pairwise distinct keys                                                  *)
(***************************************************************************)
DictHas(d, key) == \E i \in 1..Len(d) : d[i].k = key
DictGet(d, key) == d[CHOOSE i \in 1..Len(d) : d[i].k = key].v
DictDel(d, key) == SelectSeq(d, LAMBDA e : e.k # key)
DictSet(d, key, val) ==
    IF DictHas(d, key)
    THEN [i \in 1..Len(d) |-> IF d[i].k = key THEN [k |-> key, v |-> val] ELSE d[i]]
    ELSE Append(d, [k |-> key, v |-> val])
DictKeys(d) == {d[i].k : i \in 1..Len(d)}
\* dict equality ignores insertion order
DictEq(d1, d2) ==
    /\ DictKeys(d1) = DictKeys(d2)
    /\ \A key \in DictKeys(d1) : DictGet(d1, key) = DictGet(d2, key)

(***************************************************************************)
(* Section headers of device_common.mk                                     *)
(***************************************************************************)
LMKD_HEADER == <<HASH, SP, "LMKD property">>
DHA_HEADER == <<HASH, SP, "DHA property">>
CHIMERA_HEADER == <<HASH, SP, "Chimera property">>
NANDSWAP_HEADER == <<HASH, SP, "Nandswap">>

LMKD_NEXT == {CHIMERA_HEADER, DHA_HEADER}
DHA_NEXT == {CHIMERA_HEADER}
CHIMERA_NEXT == {NANDSWAP_HEADER, <<HASH>>, <<>>}

(***************************************************************************)
(* Property Block Engine: block location (core/file_operations.py)         *)
(* Indices are 1-based; 0 stands for Python's None.                        *)
(***************************************************************************)
\* first index whose stripped line equals start_header
FindStart(lines, start_header) ==
    IF \E i \in 1..Len(lines) : Strip(lines[i]) = start_header
    THEN CHOOSE i \in 1..Len(lines) :
            /\ Strip(lines[i]) = start_header
            /\ \A j \in 1..(i - 1) : Strip(lines[j]) # start_header
    ELSE 0

\* FindEnd without the search for a next header
FindEnd_to_end(lines, start, next_header_list) == Len(lines) + 1

\* first index after start whose stripped line is a next header, else len(lines)
FindEnd(lines, start, next_header_list) ==
    IF \E i \in (start + 1)..Len(lines) : Strip(lines[i]) \in next_header_list
    THEN CHOOSE i \in (start + 1)..Len(lines) :
            /\ Strip(lines[i]) \in next_header_list
            /\ \A j \in (start + 1)..(i - 1) : Strip(lines[j]) \notin next_header_list
    ELSE Len(lines) + 1

find_block_boundaries(lines, start_header, next_header_list) ==
    LET start == FindStart(lines, start_header)
    IN  IF start = 0 THEN [start |-> 0, end |-> 0]
        ELSE [start |-> start, end |-> FindEnd(lines, start, next_header_list)]

extract_block(lines, start_header, next_header_list) ==
    LET b == find_block_boundaries(lines, start_header, next_header_list)
    IN  IF b.start = 0 THEN <<>> ELSE SubSeq(lines, b.start, b.end - 1)

(***************************************************************************)
(* Property parsers                                                        *)
(***************************************************************************)
\* core/file_operations.py parse_properties_block: no directive skip, no
\* continuation strip
RECURSIVE FoParseFrom(_, _, _)
FoParseFrom(block_lines, i, properties) ==
    IF i > Len(block_lines) THEN properties
    ELSE LET line == Strip(block_lines[i])
         IN  IF line = <<>> \/ StartsWith(line, HASH)
             THEN FoParseFrom(block_lines, i + 1, properties)
             ELSE IF HasChar(line, EQ)
             THEN LET key == Strip(Before(line, EQ))
                      value == Strip(After(line, EQ))
                      value2 == IF HasChar(value, HASH) THEN Strip(SplitFirst(value, HASH)) ELSE value
                  IN  FoParseFrom(block_lines, i + 1, DictSet(properties, key, value2))
             ELSE FoParseFrom(block_lines, i + 1, properties)

parse_properties_block(block_lines) == FoParseFrom(block_lines, 1, <<>>)

\* core/core_utils.py PropertyManager._parse_properties_block
RECURSIVE PmParseFrom(_, _, _)
PmParseFrom(block_lines, i, properties) ==
    IF i > Len(block_lines) THEN properties
    ELSE LET line == Strip(block_lines[i])
         IN  IF line = <<>> \/ StartsWith(line, HASH)
             THEN PmParseFrom(block_lines, i + 1, properties)
             ELSE IF Contains(line, <<PPO>>)
             THEN PmParseFrom(block_lines, i + 1, properties)
             ELSE IF HasChar(line, EQ)
             THEN LET clean_line == RStripSet(line, {SP, BS})
                      key == Strip(Before(clean_line, EQ))
                      value == Strip(After(clean_line, EQ))
                      value2 == IF HasChar(value, HASH) THEN Strip(SplitFirst(value, HASH)) ELSE value
                  IN  PmParseFrom(block_lines, i + 1, DictSet(properties, key, value2))
             ELSE PmParseFrom(block_lines, i + 1, properties)

PropertyManager_parse_properties_block(block_lines) == PmParseFrom(block_lines, 1, <<>>)

(***************************************************************************)
(* Block rewrite with deletions (core/file_operations.py)                  *)
(***************************************************************************)
DefaultIndent == <<SP, SP, SP, SP>>

\* inner while loop of analyze_product_override_blocks: the member lines of
\* the group whose header is just before index i
RECURSIVE CollectGroup(_, _, _, _)
CollectGroup(original_lines, i, block_properties, block_lines) ==
    IF i > Len(original_lines)
    THEN [properties |-> block_properties, lines |-> block_lines, next |-> i]
    ELSE LET prop_stripped == Strip(original_lines[i])
         IN  IF prop_stripped = <<>> \/ StartsWith(prop_stripped, HASH)
             THEN CollectGroup(original_lines, i + 1, block_properties, Append(block_lines, i))
             ELSE IF HasChar(prop_stripped, EQ)
             THEN LET prop_content ==
                          IF EndsWith(prop_stripped, BS)
                          THEN Strip(SubSeq(prop_stripped, 1, Len(prop_stripped) - 1))
                          ELSE prop_stripped
                      props2 ==
                          IF HasChar(prop_content, EQ)
                          THEN Append(block_properties, Strip(Before(prop_content, EQ)))
                          ELSE block_properties
                  IN  IF ~EndsWith(prop_stripped, BS)
                      THEN [properties |-> props2, lines |-> Append(block_lines, i), next |-> i + 1]
                      ELSE CollectGroup(original_lines, i + 1, props2, Append(block_lines, i))
             ELSE [properties |-> block_properties, lines |-> block_lines, next |-> i]

RECURSIVE AnalyzeFrom(_, _, _)
AnalyzeFrom(original_lines, i, override_blocks) ==
    IF i > Len(original_lines) THEN override_blocks
    ELSE LET stripped_line == Strip(original_lines[i])
         IN  IF Contains(stripped_line, <<PPO>>) /\ Contains(stripped_line, <<PLUS, EQ>>)
             THEN LET g == CollectGroup(original_lines, i + 1, <<>>, <<i>>)
                  IN  AnalyzeFrom(original_lines, g.next,
                          Append(override_blocks,
                                 [start |-> i, properties |-> g.properties, lines |-> g.lines]))
             ELSE AnalyzeFrom(original_lines, i + 1, override_blocks)

\* i = 1 in Python skips the header line: index 2 here
analyze_product_override_blocks(original_lines) == AnalyzeFrom(original_lines, 2, <<>>)

get_default_indentation(original_lines) ==
    LET IsProp(line) ==
            /\ HasChar(line, EQ)
            /\ ~StartsWith(Strip(line), HASH)
            /\ ~Contains(line, <<PPO>>)
    IN  IF \E i \in 1..Len(original_lines) : IsProp(original_lines[i])
        THEN Indentation(original_lines[CHOOSE i \in 1..Len(original_lines) :
                /\ IsProp(original_lines[i])
                /\ \A j \in 1..(i - 1) : ~IsProp(original_lines[j])])
        ELSE DefaultIndent

\* indentation of the first member line of a group that carries a property
GroupIndent(original_lines, member_idx) ==
    LET IsProp(i) ==
            /\ i <= Len(original_lines)
            /\ HasChar(Strip(original_lines[i]), EQ)
            /\ ~StartsWith(Strip(original_lines[i]), HASH)
    IN  IF \E n \in 1..Len(member_idx) : IsProp(member_idx[n])
        THEN Indentation(original_lines[member_idx[CHOOSE n \in 1..Len(member_idx) :
                /\ IsProp(member_idx[n])
                /\ \A m \in 1..(n - 1) : ~IsProp(member_idx[m])]])
        ELSE DefaultIndent

\* existing members of a group that survive: [props, remaining]
RECURSIVE GroupExisting(_, _, _, _, _)
GroupExisting(original_lines, member_idx, n, block_props, remaining_properties) ==
    IF n > Len(member_idx)
    THEN [props |-> block_props, remaining |-> remaining_properties]
    ELSE LET prop_stripped == Strip(original_lines[member_idx[n]])
         IN  IF prop_stripped = <<>> \/ StartsWith(prop_stripped, HASH)
             THEN GroupExisting(original_lines, member_idx, n + 1, block_props, remaining_properties)
             ELSE IF HasChar(prop_stripped, EQ)
             THEN LET prop_content ==
                          IF EndsWith(prop_stripped, BS)
                          THEN Strip(SubSeq(prop_stripped, 1, Len(prop_stripped) - 1))
                          ELSE prop_stripped
                      key == Strip(Before(prop_content, EQ))
                  IN  IF HasChar(prop_content, EQ) /\ DictHas(remaining_properties, key)
                      THEN GroupExisting(original_lines, member_idx, n + 1,
                               DictSet(block_props, key, DictGet(remaining_properties, key)),
                               DictDel(remaining_properties, key))
                      ELSE GroupExisting(original_lines, member_idx, n + 1,
                               block_props, remaining_properties)
             ELSE GroupExisting(original_lines, member_idx, n + 1, block_props, remaining_properties)

\* every member but the last carries " \", the last does not
GroupLines(default_indent, prop_items) ==
    [idx \in 1..Len(prop_items) |->
        IF idx = Len(prop_items)
        THEN default_indent \o prop_items[idx].k \o <<EQ>> \o prop_items[idx].v \o <<NL>>
        ELSE default_indent \o prop_items[idx].k \o <<EQ>> \o prop_items[idx].v \o <<SP, BS, NL>>]

\* a regular key=value line with its new value, indentation and trailing comment kept
RegularLine(line, stripped_line, remaining_properties) ==
    LET key == Strip(Before(stripped_line, EQ))
        old_value == After(stripped_line, EQ)
        trailing_comment ==
            IF HasChar(old_value, HASH)
            THEN <<SP, HASH>> \o RStrip(After(old_value, HASH))
            ELSE <<>>
    IN  Indentation(line) \o key \o <<EQ>> \o DictGet(remaining_properties, key)
            \o trailing_comment \o <<NL>>

RECURSIVE UpdateFrom(_, _, _, _, _, _)
UpdateFrom(original_lines, override_blocks, line_idx, new_block, processed_lines, remaining_properties) ==
    IF line_idx > Len(original_lines)
    THEN [new_block |-> new_block, remaining |-> remaining_properties]
    ELSE IF line_idx \in processed_lines
    THEN UpdateFrom(original_lines, override_blocks, line_idx + 1, new_block,
                    processed_lines, remaining_properties)
    ELSE
    LET line == original_lines[line_idx]
        stripped_line == Strip(line)
        IsStart == \E b \in 1..Len(override_blocks) : override_blocks[b].start = line_idx
    IN  IF stripped_line = <<>> \/ StartsWith(stripped_line, HASH)
        THEN UpdateFrom(original_lines, override_blocks, line_idx + 1, Append(new_block, line),
                        processed_lines, remaining_properties)
        ELSE IF IsStart
        THEN LET current_block == override_blocks[CHOOSE b \in 1..Len(override_blocks) :
                                      override_blocks[b].start = line_idx]
                 members == Tail(current_block.lines)
                 default_indent == GroupIndent(original_lines, members)
                 ex == GroupExisting(original_lines, members, 1, <<>>, remaining_properties)
                 \* the remaining new properties all go to this group
                 block_props == ex.props \o ex.remaining
             IN  UpdateFrom(original_lines, override_blocks, line_idx + 1,
                     Append(new_block, original_lines[current_block.start])
                         \o GroupLines(default_indent, block_props),
                     processed_lines \cup {current_block.lines[n] : n \in 1..Len(current_block.lines)},
                     <<>>)
        ELSE IF HasChar(stripped_line, EQ) /\ ~Contains(stripped_line, <<PPO>>)
        THEN LET key == Strip(Before(stripped_line, EQ))
             IN  IF DictHas(remaining_properties, key)
                 THEN UpdateFrom(original_lines, override_blocks, line_idx + 1,
                          Append(new_block, RegularLine(line, stripped_line, remaining_properties)),
                          processed_lines, DictDel(remaining_properties, key))
                 ELSE UpdateFrom(original_lines, override_blocks, line_idx + 1, new_block,
                          processed_lines, remaining_properties)
        ELSE UpdateFrom(original_lines, override_blocks, line_idx + 1, Append(new_block, line),
                        processed_lines, remaining_properties)

update_product_override_block_with_deletions(original_lines, override_blocks, remaining_properties) ==
    UpdateFrom(original_lines, override_blocks, 2, <<original_lines[1]>>, {}, remaining_properties)

\* mutant: the properties left over after the block walk are not appended
add_remaining_properties_dropped(new_block, remaining_properties, original_lines) == new_block

add_remaining_properties(new_block, remaining_properties, original_lines) ==
    IF remaining_properties # <<>>
    THEN LET default_indent == get_default_indentation(original_lines)
         IN  new_block \o [i \in 1..Len(remaining_properties) |->
                 default_indent \o remaining_properties[i].k \o <<EQ>>
                     \o remaining_properties[i].v \o <<NL>>]
    ELSE new_block

update_properties_block_preserve_format_with_deletions(lines, new_properties, start_header, next_header_list) ==
    LET b == find_block_boundaries(lines, start_header, next_header_list)
    IN  IF b.start = 0 THEN lines
        ELSE LET original_lines == SubSeq(lines, b.start, b.end - 1)
                 override_blocks == analyze_product_override_blocks(original_lines)
                 u == update_product_override_block_with_deletions(
                          original_lines, override_blocks, new_properties)
                 new_block == add_remaining_properties(u.new_block, u.remaining, original_lines)
             IN  SubSeq(lines, 1, b.start - 1) \o new_block \o SubSeq(lines, b.end, Len(lines))

(***************************************************************************)
(* Property files and the tuning table                                     *)
(***************************************************************************)
\* file_operations.update_properties_in_file on the lines of the file, when
\* the file can be read and written
update_properties_in_file(ls, properties_dict) ==
    LET l1 == IF properties_dict.LMKD # <<>>
              THEN LET a == update_properties_block_preserve_format_with_deletions(
                                ls, properties_dict.LMKD, LMKD_HEADER, LMKD_NEXT)
                   IN  IF ~ \E i \in 1..Len(a) : Contains(a[i], LMKD_HEADER)
                       THEN update_properties_block_preserve_format_with_deletions(
                                a, properties_dict.LMKD, DHA_HEADER, DHA_NEXT)
                       ELSE a
              ELSE ls
    IN  IF properties_dict.Chimera # <<>>
        THEN update_properties_block_preserve_format_with_deletions(
                 l1, properties_dict.Chimera, CHIMERA_HEADER, CHIMERA_NEXT)
        ELSE l1

\* tuning_process.extract_properties_from_file before its "nothing found" test
extract_properties_from_file(ls) ==
    LET b1 == extract_block(ls, LMKD_HEADER, LMKD_NEXT)
        lmkd_block == IF b1 = <<>> THEN extract_block(ls, DHA_HEADER, DHA_NEXT) ELSE b1
        chimera_block == extract_block(ls, CHIMERA_HEADER, CHIMERA_NEXT)
    IN  [LMKD |-> IF lmkd_block # <<>>
                  THEN PropertyManager_parse_properties_block(lmkd_block) ELSE <<>>,
         Chimera |-> IF chimera_block # <<>>
                     THEN PropertyManager_parse_properties_block(chimera_block) ELSE <<>>]

Categories == {"LMKD", "Chimera"}

\* the rows of one category of the table folded into a mapping
RECURSIVE RowsToDict(_, _, _)
RowsToDict(rows, i, properties) ==
    IF i > Len(rows) THEN properties
    ELSE RowsToDict(rows, i + 1, DictSet(properties, rows[i].k, rows[i].v))

get_table_properties(tree) ==
    [LMKD |-> RowsToDict(tree.LMKD, 1, <<>>), Chimera |-> RowsToDict(tree.Chimera, 1, <<>>)]

properties_unchanged(original, current) ==
    /\ DictEq(original.LMKD, current.LMKD)
    /\ DictEq(original.Chimera, current.Chimera)

RemoveAt(rows, i) == SubSeq(rows, 1, i - 1) \o SubSeq(rows, i + 1, Len(rows))

(***************************************************************************)
(* State                                                                   *)
(***************************************************************************)
VARIABLES
    lines,           \* rewrite_block: the line sequence given to the rewrite
    new_properties,  \* rewrite_block: the mapping given to the rewrite
    once,            \* rewrite_block: the lines after one rewrite
    twice,           \* rewrite_block: the lines after a second rewrite of once
    stage,           \* rewrite_block: "input", "once" or "twice"
    file_lines,          \* tuning: content of the local copy of the target file
    properties_tree,     \* tuning: rows of the table, per category
    original_properties, \* tuning: the mapping loaded into the table
    properties_dict,     \* tuning: the mapping handed to the apply
    tuning_stage,        \* tuning: "loaded", "applied" or "failed"
    edits,               \* tuning: number of table edits made
    apply_tuning_btn,    \* tuning: state of the Apply button
    mode,            \* cascade: which resolver runs
    branch_order,    \* cascade: the branches, first one supplied by the caller
    start_input,     \* cascade: what the caller supplied for the first branch
    filelog,         \* depot: integration source of each depot file, or None
    depot_files,     \* depot: the files that exist
    pc,              \* cascade: position of the resolver
    idx,             \* cascade: index in branch_order of the current branch
    current_depot,   \* cascade: path of the current branch
    source_depot,    \* cascade: integration source just found
    resolved,        \* cascade: branch -> path bound so far
    log,             \* depot: the commands completed so far, oldest first
    error,           \* cascade: the error raised
    result,          \* cascade: the value returned
    current_device_common_path,  \* readahead: device_common.mk of the last processed branch
    current_android_mk_path,     \* readahead: Android.mk of the last processed branch
    branch_paths,                \* readahead: paths of the branch being processed
    client_spec,         \* depot: lines of the client spec on the server
    threads,             \* gui: the worker threads started, oldest first
    vendor_start_btn,    \* gui: state of the vendor Start button
    system_start_btn,    \* gui: state of the system Start button
    load_properties_btn, \* gui: state of the Load Properties button
    current_mode,        \* gui: the tab shown
    process,             \* run: which workflow runs
    valid_targets,       \* run: the targets of the run, in processing order
    changed_targets,     \* depot: targets whose local copy differs from what the run would write
    local_copies,        \* depot: the paths that have a local copy
    failing_syncs,       \* depot: the paths whose p4 sync fails
    vince_properties,    \* depot: whether the VINCE file holds an LMKD or Chimera block
    supplied_changelist, \* run: whether the caller handed a changelist to the run
    step,                \* run: position of the run
    target_idx,          \* run: index of the target being processed
    files_need_update,   \* run: the targets found to need an update
    changelists,         \* depot: number of changelists the run created
    run_log,             \* depot: the syncs, reads and writes of the run, oldest first
    reported_updated,    \* run: the targets the run's messages name as updated
    reported_failed,     \* run: the targets the run's messages name as failed
    server_spec,         \* depot: text of the client spec held by the server
    map_paths,           \* map: the depot paths given to the mapping
    mapper,              \* map: which implementation of the mapping runs
    submitted,           \* map: the spec each mapping run left, oldest first
    diff_left,           \* diff: the first property mapping
    diff_right,          \* diff: the second property mapping
    diff_forward,        \* diff: the records of diff(left, right)
    diff_backward,       \* diff: the records of diff(right, left)
    diff_done,           \* diff: the directions computed so far
    filelog_output,      \* depot: what p4 filelog prints for revision 1
    command_outcome,     \* depot: how the p4 filelog command ends
    walker_result,       \* walker: what each implementation of the history walker did
    view_table,          \* the depot sides of the workspace's view lines, in table order
    existing_files,      \* the files that exist in the depot
    p4_connection,       \* whether the server can be reached
    resolver_result,     \* what each workspace resolver handed back
    found_paths,         \* what the parse tab's workspace resolver handed back
    parse_input,         \* parser: the block lines handed to the parsers
    parse_result,        \* parser: the mapping each parser returned
    parse_done,          \* parser: the parsers that have returned
    extract_lines,       \* extract: the lines of the file
    wanted_header,       \* extract: the header of the wanted section
    extract_result,      \* extract: the slice each implementation returned
    extract_done,        \* extract: the implementations that have returned
    opened_in,           \* checkout: per queued file, the changelist it is opened in
    checkout_idx,        \* checkout: index of the file the update loop is at
    checkout_outcome,    \* checkout: how checkout_file_silent ended for that file
    written_in,          \* checkout: per file, the changelist it was opened in when it was overwritten
    summary_logged,      \* checkout: whether the summary line was logged
    vince_file,          \* bring-up: the lines of the synced VINCE file
    target_file,         \* bring-up: the lines of the target's local file
    target_original,     \* bring-up: the target's lines before the update
    first_decision,      \* bring-up: what step 5 of the first run decided
    second_decision,     \* bring-up: what step 5 of the second run decided
    bringup_stage,       \* bring-up: how far the two runs are
    mapped_depot_path,   \* local: the depot path the program works on
    local_path,          \* local: what depot_to_local_path returned for it
    view_line            \* local: the mapping line each mapper wrote for it

rewriteVars == <<lines, new_properties, once, twice, stage>>
tuningVars == <<file_lines, properties_tree, original_properties, properties_dict,
                tuning_stage, edits, apply_tuning_btn>>
guiVars == <<client_spec, threads, vendor_start_btn, system_start_btn, load_properties_btn,
             current_mode>>
envVars == <<mode, branch_order, start_input, filelog, depot_files>>
raVars == <<current_device_common_path, current_android_mk_path, branch_paths>>
cascadeVars == <<envVars, pc, idx, current_depot, source_depot, resolved, log, error, result,
                 raVars>>
runVars == <<process, valid_targets, changed_targets, local_copies, failing_syncs,
             vince_properties, supplied_changelist, step, target_idx, files_need_update,
             changelists, run_log, reported_updated, reported_failed>>
reportVars == <<reported_updated, reported_failed>>
mapVars == <<server_spec, map_paths, mapper, submitted>>
diffVars == <<diff_left, diff_right, diff_forward, diff_backward, diff_done>>
walkerVars == <<filelog_output, command_outcome, walker_result>>
resolveVars == <<view_table, existing_files, p4_connection, resolver_result, found_paths>>
parseVars == <<parse_input, parse_result, parse_done>>
extractVars == <<extract_lines, wanted_header, extract_result, extract_done>>
checkoutVars == <<opened_in, checkout_idx, checkout_outcome, written_in, summary_logged>>
bringupVars == <<vince_file, target_file, target_original, first_decision, second_decision, bringup_stage>>
localVars == <<mapped_depot_path, local_path, view_line>>
vars == <<rewriteVars, tuningVars, cascadeVars, guiVars, runVars, mapVars, diffVars, walkerVars, resolveVars, parseVars, extractVars, checkoutVars, bringupVars, localVars>>

\* what each part of the model leaves alone
notRewriteVars == <<tuningVars, cascadeVars, guiVars, runVars, mapVars, diffVars, walkerVars, resolveVars, parseVars, extractVars, checkoutVars, bringupVars, localVars>>
notTuningVars == <<rewriteVars, cascadeVars, runVars, mapVars, diffVars, walkerVars, resolveVars, parseVars, extractVars, checkoutVars, bringupVars, localVars>>
notCascadeVars == <<rewriteVars, tuningVars, guiVars, runVars, mapVars, diffVars, walkerVars, resolveVars, parseVars, extractVars, checkoutVars, bringupVars, localVars>>
notGuiVars == <<rewriteVars, cascadeVars, runVars, mapVars, diffVars, walkerVars, resolveVars, parseVars, extractVars, checkoutVars, bringupVars, localVars>>
notRunVars == <<rewriteVars, tuningVars, cascadeVars, guiVars, mapVars, diffVars, walkerVars, resolveVars, parseVars, extractVars, checkoutVars, bringupVars, localVars>>
notMapVars == <<rewriteVars, tuningVars, cascadeVars, guiVars, runVars, diffVars, walkerVars, resolveVars, parseVars, extractVars, checkoutVars, bringupVars, localVars>>
notDiffVars == <<rewriteVars, tuningVars, cascadeVars, guiVars, runVars, mapVars, walkerVars, resolveVars, parseVars, extractVars, checkoutVars, bringupVars, localVars>>
notWalkerVars == <<rewriteVars, tuningVars, cascadeVars, guiVars, runVars, mapVars, diffVars, resolveVars, parseVars, extractVars, checkoutVars, bringupVars, localVars>>
notResolveVars == <<rewriteVars, tuningVars, cascadeVars, guiVars, runVars, mapVars, diffVars, walkerVars, parseVars, extractVars, checkoutVars, bringupVars, localVars>>
notParseVars == <<rewriteVars, tuningVars, cascadeVars, guiVars, runVars, mapVars, diffVars, walkerVars, resolveVars, extractVars, checkoutVars, bringupVars, localVars>>
notExtractVars == <<rewriteVars, tuningVars, cascadeVars, guiVars, runVars, mapVars, diffVars, walkerVars, resolveVars, parseVars, checkoutVars, bringupVars, localVars>>
notCheckoutVars == <<rewriteVars, tuningVars, cascadeVars, guiVars, runVars, mapVars, diffVars, walkerVars, resolveVars, parseVars, extractVars, bringupVars, localVars>>
notBringupVars == <<rewriteVars, tuningVars, cascadeVars, guiVars, runVars, mapVars, diffVars, walkerVars, resolveVars, parseVars, extractVars, checkoutVars, localVars>>
notLocalVars == <<rewriteVars, tuningVars, cascadeVars, guiVars, runVars, mapVars, diffVars, walkerVars, resolveVars, parseVars, extractVars, checkoutVars, bringupVars>>

RewriteIdle ==
    /\ lines = <<>>
    /\ new_properties = <<>>
    /\ once = <<>>
    /\ twice = <<>>
    /\ stage = "idle"

EmptyMapping == [LMKD |-> <<>>, Chimera |-> <<>>]

TuningIdle ==
    /\ file_lines = <<>>
    /\ properties_tree = EmptyMapping
    /\ original_properties = EmptyMapping
    /\ properties_dict = EmptyMapping
    /\ tuning_stage = "idle"
    /\ edits = 0
    /\ apply_tuning_btn = "disabled"

GuiIdle ==
    /\ client_spec = <<>>
    /\ threads = <<>>
    /\ vendor_start_btn = "normal"
    /\ system_start_btn = "normal"
    /\ load_properties_btn = "normal"
    /\ current_mode = "bringup"

RunIdle ==
    /\ process = "idle"
    /\ valid_targets = <<>>
    /\ changed_targets = {}
    /\ local_copies = {}
    /\ failing_syncs = {}
    /\ vince_properties = TRUE
    /\ supplied_changelist = FALSE
    /\ step = "idle"
    /\ target_idx = 0
    /\ files_need_update = <<>>
    /\ changelists = 0
    /\ run_log = <<>>
    /\ reported_updated = {}
    /\ reported_failed = {}

MapIdle ==
    /\ server_spec = <<>>
    /\ map_paths = <<>>
    /\ mapper = "idle"
    /\ submitted = <<>>

DiffIdle ==
    /\ diff_left = EmptyMapping
    /\ diff_right = EmptyMapping
    /\ diff_forward = <<>>
    /\ diff_backward = <<>>
    /\ diff_done = {}

WalkerIdle ==
    /\ filelog_output = <<>>
    /\ command_outcome = "idle"
    /\ walker_result = <<>>

ResolveIdle ==
    /\ view_table = <<>>
    /\ existing_files = {}
    /\ p4_connection = "idle"
    /\ resolver_result = <<>>
    /\ found_paths = <<>>

ParseIdle ==
    /\ parse_input = <<>>
    /\ parse_result = <<>>
    /\ parse_done = {}

ExtractIdle ==
    /\ extract_lines = <<>>
    /\ wanted_header = <<>>
    /\ extract_result = <<>>
    /\ extract_done = {}

CheckoutIdle ==
    /\ opened_in = <<>>
    /\ checkout_idx = 0
    /\ checkout_outcome = "idle"
    /\ written_in = <<>>
    /\ summary_logged = FALSE

BringupIdle ==
    /\ vince_file = <<>>
    /\ target_file = <<>>
    /\ target_original = <<>>
    /\ first_decision = "idle"
    /\ second_decision = "idle"
    /\ bringup_stage = "idle"

LocalIdle ==
    /\ mapped_depot_path = <<>>
    /\ local_path = <<>>
    /\ view_line = <<>>

NoBranchPaths == [device_common_path |-> "None", android_mk_path |-> "None"]

CascadeIdle ==
    /\ mode = "idle"
    /\ branch_order = <<>>
    /\ start_input = ""
    /\ filelog = <<>>
    /\ depot_files = {}
    /\ pc = "idle"
    /\ idx = 0
    /\ current_depot = "None"
    /\ source_depot = "None"
    /\ resolved = <<>>
    /\ log = <<>>
    /\ error = <<>>
    /\ result = <<>>
    /\ current_device_common_path = "None"
    /\ current_android_mk_path = "None"
    /\ branch_paths = NoBranchPaths

(***************************************************************************)
(* Inputs of the block rewrite                                             *)
(***************************************************************************)
Keys == {<<"a">>, <<"b">>, <<"c">>}
PlainValues == {<<"1">>, <<"2">>}
HashValue == <<"1", HASH, "x">>
Values == PlainValues \cup {HashValue}

BodyLines == {
    <<"a", EQ, "1", NL>>,
    <<SP, "b", EQ, "2", SP, HASH, SP, "note", NL>>,
    <<PPO, SP, PLUS, EQ, SP, BS, NL>>,
    <<SP, "a", EQ, "1", SP, BS, NL>>,
    <<SP, "b", EQ, "2", NL>>,
    <<HASH, SP, "note", NL>>,
    <<NL>>,
    <<"endif", NL>>,
    CHIMERA_HEADER \o <<NL>> }

Bodies(n) == UNION {[1..m -> BodyLines] : m \in 0..n}

\* insertion-ordered mappings with 1..n entries
Dicts(n) ==
    {d \in UNION {[1..m -> [k : Keys, v : Values]] : m \in 1..n} :
        \A i, j \in 1..Len(d) : i # j => d[i].k # d[j].k}

InitRewrite ==
    /\ lines \in {<<LMKD_HEADER \o <<NL>> >> \o body : body \in Bodies(MaxBody)}
    /\ new_properties \in Dicts(MaxProps)
    /\ once = <<>>
    /\ twice = <<>>
    /\ stage = "input"
    /\ TuningIdle
    /\ CascadeIdle
    /\ GuiIdle
    /\ RunIdle
    /\ MapIdle
    /\ DiffIdle
    /\ WalkerIdle
    /\ ResolveIdle
    /\ ParseIdle
    /\ ExtractIdle
    /\ CheckoutIdle
    /\ BringupIdle
    /\ LocalIdle

rewrite_block(ls, props) ==
    update_properties_block_preserve_format_with_deletions(ls, props, LMKD_HEADER, LMKD_NEXT)

RewriteOnce ==
    /\ stage = "input"
    /\ once' = rewrite_block(lines, new_properties)
    /\ stage' = "once"
    /\ UNCHANGED <<lines, new_properties, twice, notRewriteVars>>

RewriteTwice ==
    /\ stage = "once"
    /\ twice' = rewrite_block(once, new_properties)
    /\ stage' = "twice"
    /\ UNCHANGED <<lines, new_properties, once, notRewriteVars>>

NextRewrite == RewriteOnce \/ RewriteTwice

SpecRewrite == InitRewrite /\ [][NextRewrite]_vars

(***************************************************************************)
(* Claims about the block rewrite                                          *)
(***************************************************************************)
\* C4: rewriting the block twice with the same new_properties yields exactly
\* the lines of rewriting it once.
C4_RewriteIdempotent == stage = "twice" => twice = once

\* the mapping read back from the rewritten block
ParsedBack == PropertyManager_parse_properties_block(extract_block(once, LMKD_HEADER, LMKD_NEXT))
ParsedOriginal == PropertyManager_parse_properties_block(extract_block(lines, LMKD_HEADER, LMKD_NEXT))
NoHashValue == \A i \in 1..Len(new_properties) : ~HasChar(new_properties[i].v, HASH)

TuningBodyLines == {<<"a", EQ, "1", NL>>, <<"b", EQ, "2", NL>>}
TuningBodies(n) == UNION {[1..m -> TuningBodyLines] : m \in 0..n}
TuningFiles ==
    {<<h \o <<NL>> >> \o lb \o <<CHIMERA_HEADER \o <<NL>> >> \o cb :
        h \in {LMKD_HEADER, DHA_HEADER},
        lb \in TuningBodies(MaxFileBody), cb \in TuningBodies(MaxFileBody)}
NewName == <<"c">>
NewValue == <<"3">>

\* the table right after a successful load (populate_properties_table)
InitTuning ==
    /\ file_lines \in {f \in TuningFiles : extract_properties_from_file(f) # EmptyMapping}
    /\ original_properties = extract_properties_from_file(file_lines)
    /\ properties_tree = original_properties
    /\ properties_dict = EmptyMapping
    /\ tuning_stage = "loaded"
    /\ edits = 0
    /\ apply_tuning_btn = "normal"
    /\ client_spec = <<>>
    /\ threads = <<>>
    /\ vendor_start_btn = "normal"
    /\ system_start_btn = "normal"
    /\ load_properties_btn = "normal"
    /\ current_mode = "tuning"
    /\ RewriteIdle
    /\ CascadeIdle
    /\ RunIdle
    /\ MapIdle
    /\ DiffIdle
    /\ WalkerIdle
    /\ ResolveIdle
    /\ ParseIdle
    /\ ExtractIdle
    /\ CheckoutIdle
    /\ BringupIdle
    /\ LocalIdle

\* Add Property: a row is appended and the Apply button is enabled
add_property ==
    /\ current_mode = "tuning"
    /\ tuning_stage = "loaded"
    /\ edits < MaxEdits
    /\ \E category \in Categories :
          properties_tree' = [properties_tree EXCEPT
              ![category] = Append(@, [k |-> NewName, v |-> NewValue])]
    /\ edits' = edits + 1
    /\ apply_tuning_btn' = "normal"
    /\ UNCHANGED <<file_lines, original_properties, properties_dict, tuning_stage,
                   guiVars, notTuningVars>>

edit_property ==
    /\ tuning_stage = "loaded"
    /\ edits < MaxEdits
    /\ \E category \in Categories : \E i \in 1..Len(properties_tree[category]) :
          properties_tree' = [properties_tree EXCEPT
              ![category][i] = [k |-> @.k, v |-> NewValue]]
    /\ edits' = edits + 1
    /\ UNCHANGED <<file_lines, original_properties, properties_dict, tuning_stage,
                   apply_tuning_btn, guiVars, notTuningVars>>

\* delete_property on a property row, or on a category header (all its rows)
delete_property ==
    /\ tuning_stage = "loaded"
    /\ edits < MaxEdits
    /\ \E category \in Categories :
          \/ \E i \in 1..Len(properties_tree[category]) :
                properties_tree' = [properties_tree EXCEPT ![category] = RemoveAt(@, i)]
          \/ /\ properties_tree[category] # <<>>
             /\ properties_tree' = [properties_tree EXCEPT ![category] = <<>>]
    /\ edits' = edits + 1
    /\ UNCHANGED <<file_lines, original_properties, properties_dict, tuning_stage,
                   apply_tuning_btn, guiVars, notTuningVars>>

\* on_apply_tuning, the target file is updated
apply_tuning_changes ==
    /\ tuning_stage = "loaded" /\ apply_tuning_btn = "normal"
    /\ LET current_properties == get_table_properties(properties_tree)
       IN  /\ ~ properties_unchanged(original_properties, current_properties)
           /\ properties_dict' = current_properties
           /\ file_lines' = update_properties_in_file(file_lines, current_properties)
    /\ tuning_stage' = "applied"
    /\ UNCHANGED <<properties_tree, original_properties, edits, apply_tuning_btn,
                   guiVars, notTuningVars>>

\* on_apply_tuning, a depot command or the file access fails
apply_tuning_changes_failed ==
    /\ tuning_stage = "loaded" /\ apply_tuning_btn = "normal"
    /\ LET current_properties == get_table_properties(properties_tree)
       IN  /\ ~ properties_unchanged(original_properties, current_properties)
           /\ properties_dict' = current_properties
    /\ tuning_stage' = "failed"
    /\ UNCHANGED <<file_lines, properties_tree, original_properties, edits, apply_tuning_btn,
                   guiVars, notTuningVars>>

NextTuning ==
    \/ add_property
    \/ edit_property
    \/ delete_property
    \/ apply_tuning_changes
    \/ apply_tuning_changes_failed

SpecTuning == InitTuning /\ [][NextTuning]_vars

\* the keys the target file holds for a category after the apply
FileProperties == extract_properties_from_file(file_lines)

\* C6: after a successful apply of P, for every category the keys with a
\* key=value line in the file's block are keys of P[category], also when
\* P[category] is empty.
C6_DeletionsApplied ==
    tuning_stage = "applied" =>
        \A category \in Categories :
            DictKeys(FileProperties[category]) \subseteq DictKeys(properties_dict[category])

(***************************************************************************)
(* Cascade resolution over the integration history                         *)
(***************************************************************************)
None == "None"      \* Python None
Empty == ""         \* an input or result field left empty
NoResult == [REL |-> None, FLUMEN |-> None, BENI |-> None]   \* nothing returned
NoError == [kind |-> "none", branch |-> Empty, path |-> Empty]

BranchNames == {"REL", "FLUMEN", "BENI"}
BranchOrders == {<<"REL", "FLUMEN", "BENI">>, <<"FLUMEN", "BENI">>}
Workspace == [REL |-> "TEMPLATE_REL", FLUMEN |-> "TEMPLATE_FLUMEN", BENI |-> "TEMPLATE_BENI"]
DeviceCommon == [REL |-> "//REL/device_common.mk", FLUMEN |-> "//FLUMEN/device_common.mk",
                 BENI |-> "//BENI/device_common.mk"]
AndroidMk == [REL |-> "//REL/Android.mk", FLUMEN |-> "//FLUMEN/Android.mk",
              BENI |-> "//BENI/Android.mk"]
DeviceCommonPaths == {DeviceCommon[b] : b \in BranchNames}
AndroidMkPaths == {AndroidMk[b] : b \in BranchNames}
DepotPaths == DeviceCommonPaths \cup AndroidMkPaths

\* the file a depot file was integrated ("branch from") from, when it has one
BranchFrom(p) ==
    CASE p = DeviceCommon.REL -> DeviceCommon.FLUMEN
      [] p = DeviceCommon.FLUMEN -> DeviceCommon.BENI
      [] p = AndroidMk.REL -> AndroidMk.FLUMEN
      [] p = AndroidMk.FLUMEN -> AndroidMk.BENI
      [] OTHER -> None

\* the possible states of the depot's integration records
Histories(paths) ==
    {f \in [DepotPaths -> DepotPaths \cup {None}] :
        \A p \in DepotPaths : f[p] \in (IF p \in paths THEN {BranchFrom(p), None} ELSE {None})}

\* a walker that hands back the path it was asked about
get_integration_source_depot_path_same(records, depot_path) == depot_path

\* get_integration_source_depot_path: the "branch from" path of revision #1,
\* None when the command fails or shows no such line
get_integration_source_depot_path(records, depot_path) ==
    IF depot_path \in DOMAIN records THEN records[depot_path] ELSE None

\* validate_depot_path: "p4 files" finds the path
validate_depot_path(files, depot_path) == depot_path \in files

Cmd(op, path, ok) == [op |-> op, path |-> path, ok |-> ok]

\* the error raised when the history walker finds no source for a hop
no_history_error_next(current_branch, next_branch, depot_path) ==
    [kind |-> "No integration history found", branch |-> next_branch, path |-> depot_path]

no_history_error(current_branch, next_branch, depot_path) ==
    [kind |-> "No integration history found", branch |-> current_branch, path |-> depot_path]

source_missing_error(depot_path) ==
    [kind |-> "Integration source does not exist", branch |-> Empty, path |-> depot_path]

start_missing_error(branch, depot_path) ==
    [kind |-> "path does not exist", branch |-> branch, path |-> depot_path]

command_failed_error(depot_path) ==
    [kind |-> "Command failed", branch |-> Empty, path |-> depot_path]

\* the inputs as the caller gave them: only the first branch is filled in
original_inputs(order, start) ==
    [b \in BranchNames |-> IF b = order[1] THEN start ELSE Empty]

\* auto_resolve_vendor_branches, a hop without history or with a missing
\* source: a warning is logged and the values resolved so far are returned
vendor_not_found_result_lost(resolved_so_far, order, start) == original_inputs(order, start)

vendor_not_found_result(resolved_so_far, order, start) == resolved_so_far

InitCascade ==
    /\ mode \in {"core", "strict", "vendor", "readahead"}
    /\ branch_order \in BranchOrders
    /\ start_input = IF mode = "core" THEN DeviceCommon[branch_order[1]]
                                      ELSE Workspace[branch_order[1]]
    /\ filelog \in Histories(IF mode = "readahead" THEN DepotPaths ELSE DeviceCommonPaths)
    /\ depot_files \in (IF mode = "readahead" THEN {DepotPaths} ELSE SUBSET DeviceCommonPaths)
    /\ pc = CASE mode = "core" -> "map"
              [] mode = "readahead" -> "primary"
              [] OTHER -> "resolve"
    /\ idx = 1
    /\ current_depot = IF mode = "core" THEN start_input ELSE None
    /\ source_depot = None
    /\ resolved = original_inputs(branch_order, start_input)
    /\ log = <<>>
    /\ error = NoError
    /\ result = NoResult
    /\ current_device_common_path = None
    /\ current_android_mk_path = None
    /\ branch_paths = NoBranchPaths
    /\ RewriteIdle
    /\ TuningIdle
    /\ GuiIdle
    /\ RunIdle
    /\ MapIdle
    /\ DiffIdle
    /\ WalkerIdle
    /\ ResolveIdle
    /\ ParseIdle
    /\ ExtractIdle
    /\ CheckoutIdle
    /\ BringupIdle
    /\ LocalIdle

Resolver == mode \in {"core", "strict", "vendor"}

\* an exception reaches the resolver's except clause: the strict resolvers
\* re-raise it, auto_resolve_vendor_branches returns the original inputs
raise(err) ==
    /\ pc' = IF mode = "vendor" THEN "returned" ELSE "raised"
    /\ result' = IF mode = "vendor" THEN original_inputs(branch_order, start_input) ELSE result
    /\ error' = IF mode = "vendor" THEN error ELSE err

return(res) ==
    /\ pc' = "returned"
    /\ result' = res
    /\ error' = error

\* find_device_common_mk_path on the first branch's workspace
resolve_start ==
    /\ Resolver /\ pc = "resolve"
    /\ \E found \in {DeviceCommon[branch_order[1]], None} : current_depot' = found
    /\ pc' = "validate_start"
    /\ UNCHANGED <<envVars, idx, source_depot, resolved, log, error, result, raVars, notCascadeVars>>

validate_start ==
    /\ Resolver /\ pc = "validate_start"
    /\ LET ok == validate_depot_path(depot_files, current_depot)
       IN  /\ log' = Append(log, Cmd("validate", current_depot, ok))
           /\ IF ok THEN pc' = "map" /\ UNCHANGED <<result, error>>
                    ELSE raise(start_missing_error(branch_order[1], current_depot))
    /\ UNCHANGED <<envVars, idx, current_depot, source_depot, resolved, raVars, notCascadeVars>>

cascade_map ==
    /\ Resolver /\ pc = "map"
    /\ log' = Append(log, Cmd("map", current_depot, TRUE))
    /\ pc' = "sync"
    /\ UNCHANGED <<envVars, idx, current_depot, source_depot, resolved, error, result, raVars, notCascadeVars>>

cascade_sync ==
    /\ Resolver /\ pc = "sync"
    /\ log' = Append(log, Cmd("sync", current_depot, TRUE))
    /\ IF idx < Len(branch_order) THEN pc' = "query" /\ UNCHANGED <<result, error>>
                                  ELSE return(resolved)
    /\ UNCHANGED <<envVars, idx, current_depot, source_depot, resolved, raVars, notCascadeVars>>

cascade_query ==
    /\ Resolver /\ pc = "query"
    /\ LET source == get_integration_source_depot_path(filelog, current_depot)
       IN  /\ log' = Append(log, Cmd("query", current_depot, source # None))
           /\ source_depot' = source
           /\ IF source # None THEN pc' = "validate" /\ UNCHANGED <<result, error>>
              ELSE IF mode = "vendor"
                   THEN return(vendor_not_found_result(resolved, branch_order, start_input))
                   ELSE raise(no_history_error(branch_order[idx], branch_order[idx + 1], current_depot))
    /\ UNCHANGED <<envVars, idx, current_depot, resolved, raVars, notCascadeVars>>

\* mutant: the source is recorded whatever the existence check says
cascade_validate_unchecked ==
    /\ Resolver /\ pc = "validate"
    /\ log' = Append(log, Cmd("validate", source_depot, validate_depot_path(depot_files, source_depot)))
    /\ resolved' = [resolved EXCEPT ![branch_order[idx + 1]] = source_depot]
    /\ current_depot' = source_depot
    /\ idx' = idx + 1
    /\ IF mode = "core" \/ idx + 1 < Len(branch_order)
       THEN pc' = "map" /\ UNCHANGED <<result, error>>
       ELSE return(resolved')
    /\ UNCHANGED <<envVars, source_depot, raVars, notCascadeVars>>

cascade_validate ==
    /\ Resolver /\ pc = "validate"
    /\ LET ok == validate_depot_path(depot_files, source_depot)
       IN  /\ log' = Append(log, Cmd("validate", source_depot, ok))
           /\ IF ok
              THEN /\ resolved' = [resolved EXCEPT ![branch_order[idx + 1]] = source_depot]
                   /\ current_depot' = source_depot
                   /\ idx' = idx + 1
                   /\ IF mode = "core" \/ idx + 1 < Len(branch_order)
                      THEN pc' = "map" /\ UNCHANGED <<result, error>>
                      ELSE return(resolved')
              ELSE /\ UNCHANGED <<resolved, current_depot, idx>>
                   /\ IF mode = "vendor"
                      THEN return(vendor_not_found_result(resolved, branch_order, start_input))
                      ELSE raise(source_missing_error(source_depot))
    /\ UNCHANGED <<envVars, source_depot, raVars, notCascadeVars>>

\* a depot command of the resolver fails (workspace lookup, map or sync)
cascade_command_fails ==
    /\ Resolver /\ pc \in {"resolve", "map", "sync"}
    /\ raise(command_failed_error(current_depot))
    /\ UNCHANGED <<envVars, idx, current_depot, source_depot, resolved, log, raVars, notCascadeVars>>

(***************************************************************************)
(* Readahead: the cascade loop of run_readahead_process                    *)
(***************************************************************************)
\* step 1: device_common.mk of the primary workspace is found, mapped, synced
ra_primary ==
    /\ mode = "readahead" /\ pc = "primary"
    /\ log' = log \o <<Cmd("map", DeviceCommon[branch_order[1]], TRUE),
                       Cmd("sync", DeviceCommon[branch_order[1]], TRUE)>>
    /\ pc' = "branch"
    /\ UNCHANGED <<envVars, idx, current_depot, source_depot, resolved, error, result, raVars, notCascadeVars>>

ra_primary_fails ==
    /\ mode = "readahead" /\ pc = "primary"
    /\ pc' = "raised"
    /\ error' = command_failed_error(DeviceCommon[branch_order[1]])
    /\ UNCHANGED <<envVars, idx, current_depot, source_depot, resolved, log, result, raVars, notCascadeVars>>

\* first branch: process_single_branch finds its paths from the workspace
ra_first_branch ==
    /\ mode = "readahead" /\ pc = "branch" /\ idx = 1
    /\ branch_paths' = [device_common_path |-> DeviceCommon[branch_order[1]],
                        android_mk_path |-> AndroidMk[branch_order[1]]]
    /\ pc' = "map_device_common"
    /\ UNCHANGED <<envVars, idx, current_depot, source_depot, resolved, log, error, result,
                   current_device_common_path, current_android_mk_path, notCascadeVars>>

\* later branch: get_cascaded_paths_from_integration on the current paths
ra_cascade_branch ==
    /\ mode = "readahead" /\ pc = "branch" /\ 1 < idx /\ idx <= Len(branch_order)
    /\ LET integrated_device_common ==
               get_integration_source_depot_path(filelog, current_device_common_path)
           integrated_android_mk ==
               get_integration_source_depot_path(filelog, current_android_mk_path)
       IN  /\ log' = log \o <<Cmd("query", current_device_common_path, integrated_device_common # None),
                              Cmd("query", current_android_mk_path, integrated_android_mk # None)>>
           /\ IF integrated_device_common = None \/ integrated_android_mk = None
              THEN /\ idx' = idx + 1
                   /\ pc' = "branch"
                   /\ UNCHANGED branch_paths
              ELSE /\ branch_paths' = [device_common_path |-> integrated_device_common,
                                       android_mk_path |-> integrated_android_mk]
                   /\ pc' = "map_device_common"
                   /\ UNCHANGED idx
    /\ UNCHANGED <<envVars, current_depot, source_depot, resolved, error, result,
                   current_device_common_path, current_android_mk_path, notCascadeVars>>

\* process_single_branch: map and sync device_common.mk, then Android.mk
ra_map_sync ==
    /\ mode = "readahead"
    /\ \/ /\ pc = "map_device_common"
          /\ log' = Append(log, Cmd("map", branch_paths.device_common_path, TRUE))
          /\ pc' = "sync_device_common"
       \/ /\ pc = "sync_device_common"
          /\ log' = Append(log, Cmd("sync", branch_paths.device_common_path, TRUE))
          /\ pc' = "map_android_mk"
       \/ /\ pc = "map_android_mk"
          /\ log' = Append(log, Cmd("map", branch_paths.android_mk_path, TRUE))
          /\ pc' = "sync_android_mk"
       \/ /\ pc = "sync_android_mk"
          /\ log' = Append(log, Cmd("sync", branch_paths.android_mk_path, TRUE))
          /\ pc' = "edit"
    /\ UNCHANGED <<envVars, idx, current_depot, source_depot, resolved, error, result, raVars, notCascadeVars>>

\* process_single_branch returns: its paths become the current ones
ra_branch_done ==
    /\ mode = "readahead" /\ pc = "edit"
    /\ current_device_common_path' = branch_paths.device_common_path
    /\ current_android_mk_path' = branch_paths.android_mk_path
    /\ idx' = idx + 1
    /\ pc' = "branch"
    /\ UNCHANGED <<envVars, current_depot, source_depot, resolved, log, error, result,
                   branch_paths, notCascadeVars>>

\* process_single_branch raises: the user is asked whether to continue
ra_branch_fails ==
    /\ mode = "readahead"
    /\ \/ pc \in {"map_device_common", "sync_device_common", "map_android_mk",
                  "sync_android_mk", "edit"}
       \/ pc = "branch" /\ idx = 1
    /\ pc' = "ask"
    /\ UNCHANGED <<envVars, idx, current_depot, source_depot, resolved, log, error, result, raVars, notCascadeVars>>

\* the user answers yes: the loop goes on with the next branch
ra_continue ==
    /\ mode = "readahead" /\ pc = "ask"
    /\ idx' = idx + 1
    /\ pc' = "branch"
    /\ UNCHANGED <<envVars, current_depot, source_depot, resolved, log, error, result, raVars, notCascadeVars>>

\* the user answers no: the exception is raised again
ra_abort ==
    /\ mode = "readahead" /\ pc = "ask"
    /\ pc' = "raised"
    /\ error' = command_failed_error(branch_paths.device_common_path)
    /\ UNCHANGED <<envVars, idx, current_depot, source_depot, resolved, log, result, raVars, notCascadeVars>>

ra_finish ==
    /\ mode = "readahead" /\ pc = "branch" /\ idx > Len(branch_order)
    /\ pc' = "returned"
    /\ UNCHANGED <<envVars, idx, current_depot, source_depot, resolved, log, error, result, raVars, notCascadeVars>>

NextCascade ==
    \/ resolve_start
    \/ validate_start
    \/ cascade_map
    \/ cascade_sync
    \/ cascade_query
    \/ cascade_validate
    \/ cascade_command_fails
    \/ ra_primary
    \/ ra_primary_fails
    \/ ra_first_branch
    \/ ra_cascade_branch
    \/ ra_map_sync
    \/ ra_branch_done
    \/ ra_branch_fails
    \/ ra_continue
    \/ ra_abort
    \/ ra_finish

SpecCascade == InitCascade /\ [][NextCascade]_vars

(***************************************************************************)
(* Claims about the cascade                                                *)
(***************************************************************************)
FullOrder == <<"REL", "FLUMEN", "BENI">>
Issued(op, path) == \E n \in 1..Len(log) : log[n].op = op /\ log[n].path = path

\* C1: best-effort cascade [REL, FLUMEN, BENI] in which REL's integration
\* source exists (FLUMEN) and the query of FLUMEN's history finds no source:
\* the call returns without raising, with REL and FLUMEN bound and BENI empty.
C1_Case ==
    /\ mode = "vendor" /\ branch_order = FullOrder
    /\ pc \in {"returned", "raised"}
    /\ filelog[DeviceCommon.REL] = DeviceCommon.FLUMEN
    /\ DeviceCommon.FLUMEN \in depot_files
    /\ Issued("query", DeviceCommon.FLUMEN)
    /\ filelog[DeviceCommon.FLUMEN] = None

C2_Case ==
    /\ mode \in {"core", "strict"}
    /\ pc = "raised"
    /\ idx < Len(branch_order) /\ branch_order[idx + 1] = "BENI"
    /\ log # <<>> /\ log[Len(log)] = Cmd("query", current_depot, FALSE)

\* C2 as stated: the error raised identifies BENI as the failure point and
\* nothing is returned.
C2_ErrorNamesBeni == C2_Case => (error.branch = "BENI" /\ result = NoResult)

\* C2 as amended: the error raised identifies FLUMEN, the branch whose
\* integration history is missing, with FLUMEN's path, and nothing is returned.
C2_ErrorNamesFlumen ==
    C2_Case =>
        /\ error = [kind |-> "No integration history found", branch |-> "FLUMEN",
                    path |-> current_depot]
        /\ resolved.BENI = Empty
        /\ result = NoResult

C2_Witness ==
    /\ C2_Case /\ branch_order = FullOrder
    /\ resolved.FLUMEN = DeviceCommon.FLUMEN /\ error.branch = "FLUMEN"

Validated(path) ==
    \E n \in 1..Len(log) : log[n] = Cmd("validate", path, TRUE)

\* C3 as stated: every branch with an entry, the first one included, has a
\* path whose existence check succeeded before the entry was written.
C3_EveryEntryValidated ==
    \A b \in BranchNames :
        (mode \in {"core", "strict", "vendor"} /\ resolved[b] # Empty) => Validated(resolved[b])

\* C3 as amended: every branch after the first of branch_order that has an
\* entry, in the working result or the returned one, holds a path whose
\* existence check succeeded before the entry was written.
C3_LaterEntriesValidated ==
    \A i \in 2..Len(branch_order) :
        LET b == branch_order[i]
        IN  /\ (Resolver /\ resolved[b] # Empty) => Validated(resolved[b])
            /\ (Resolver /\ result # NoResult /\ result[b] # Empty) => Validated(result[b])

C3_Witness ==
    /\ Resolver /\ branch_order = FullOrder
    /\ resolved.FLUMEN # Empty /\ resolved.BENI # Empty
    /\ Validated(resolved.BENI)

\* C10: every integration-history query is made on a path that was mapped
\* and then synced earlier in the run.
C10_QueryAfterMapSync ==
    \A n \in 1..Len(log) :
        log[n].op = "query" =>
            \E i, j \in 1..n :
                /\ i < j /\ j < n
                /\ log[i] = Cmd("map", log[n].path, TRUE)
                /\ log[j] = Cmd("sync", log[n].path, TRUE)

BestEffort == mode \in {"vendor", "readahead"}

\* a hop found no source, or a source that does not exist
Unresolved(n) == log[n].op \in {"query", "validate"} /\ ~log[n].ok

\* the cascade does nothing more after the hop that could not be resolved
StopsAtUnresolved ==
    \A n \in 1..Len(log) :
        Unresolved(n) => \A m \in (n + 1)..Len(log) : log[m].op \notin {"map", "sync"}

\* the files a readahead branch works on are the ones resolved for that branch
ProcessedUnderOwnName ==
    (mode = "readahead" /\ pc \in {"map_device_common", "sync_device_common",
                                   "map_android_mk", "sync_android_mk", "edit"}) =>
        /\ branch_paths.device_common_path = DeviceCommon[branch_order[idx]]
        /\ branch_paths.android_mk_path = AndroidMk[branch_order[idx]]

\* C11: in a best-effort cascade nothing is mapped or synced after the first
\* hop that found no source or a missing one, and no path is processed under
\* a branch name other than the one it was resolved for.
C11_StopsAtFirstUnresolved ==
    BestEffort => (StopsAtUnresolved /\ ProcessedUnderOwnName)

\* C12: a best-effort resolution that has resolved and validated a branch
\* returns that branch's path to the caller, whatever failed afterwards.
C12_PartialResultSurvives ==
    (mode = "vendor" /\ pc = "returned") =>
        \A i \in 2..Len(branch_order) :
            resolved[branch_order[i]] # Empty =>
                result[branch_order[i]] = resolved[branch_order[i]]

(***************************************************************************)
(* GUI: workflows started from the tabs, each on its own worker thread     *)
(***************************************************************************)
ClientName == "client"

\* the view line _map_client_depots_core builds for a depot path
mapping_line(depot_path) ==
    <<"\t">> \o depot_path \o <<"\t", "//", ClientName, "/">> \o Tail(depot_path)

\* mutant: the old lines of the depots stay in the spec
map_client_depots_kept(spec_lines, depot_paths) ==
    spec_lines \o [i \in 1..Len(depot_paths) |-> mapping_line(depot_paths[i])]

\* _map_client_depots_core on a fetched spec: old lines of the depots are
\* dropped, the new mapping lines are appended
map_client_depots(spec_lines, depot_paths) ==
    SelectSeq(spec_lines,
              LAMBDA line : ~ \E i \in 1..Len(depot_paths) : Contains(line, depot_paths[i]))
        \o [i \in 1..Len(depot_paths) |-> mapping_line(depot_paths[i])]

\* the depot paths each workflow maps
WorkflowDepots ==
    [vendor |-> << <<"//", "BENI", "/", "device_common.mk">>,
                   <<"//", "VINCE", "/", "device_common.mk">> >>,
     system |-> << <<"//", "SYSTEM", "/", "build.mk">> >>,
     tuning |-> << <<"//", "FLUMEN", "/", "device_common.mk">> >>]

GuiFile == <<LMKD_HEADER \o <<NL>>, <<"a", EQ, "1", NL>>, CHIMERA_HEADER \o <<NL>> >>

InitGui ==
    /\ client_spec = << <<"Client:", "\t", ClientName>>, <<"View:">> >>
    /\ threads = <<>>
    /\ vendor_start_btn = "normal"
    /\ system_start_btn = "normal"
    /\ load_properties_btn = "normal"
    /\ current_mode = "bringup"
    /\ file_lines = GuiFile
    /\ original_properties = extract_properties_from_file(GuiFile)
    /\ properties_tree = original_properties
    /\ properties_dict = EmptyMapping
    /\ tuning_stage = "loaded"
    /\ edits = 0
    /\ apply_tuning_btn = "normal"
    /\ RewriteIdle
    /\ CascadeIdle
    /\ RunIdle
    /\ MapIdle
    /\ DiffIdle
    /\ WalkerIdle
    /\ ResolveIdle
    /\ ParseIdle
    /\ ExtractIdle
    /\ CheckoutIdle
    /\ BringupIdle
    /\ LocalIdle

start_thread(workflow) ==
    threads' = Append(threads, [workflow |-> workflow, pc |-> "fetch", lines |-> <<>>])

\* on_tab_changed / switch_mode
switch_mode ==
    /\ \E m \in {"bringup", "tuning"} : m # current_mode /\ current_mode' = m
    /\ UNCHANGED <<client_spec, threads, vendor_start_btn, system_start_btn,
                   load_properties_btn, tuningVars, notGuiVars>>

\* Start of the vendor bring-up with all branches given: _run_vendor_process
on_vendor_start ==
    /\ current_mode = "bringup" /\ vendor_start_btn = "normal"
    /\ Len(threads) < MaxThreads
    /\ vendor_start_btn' = "disabled"
    /\ start_thread("vendor")
    /\ UNCHANGED <<client_spec, system_start_btn, load_properties_btn, current_mode,
                   tuningVars, notGuiVars>>

\* Start of the system bring-up: _run_system_process
on_system_start ==
    /\ current_mode = "bringup" /\ system_start_btn = "normal"
    /\ Len(threads) < MaxThreads
    /\ system_start_btn' = "disabled"
    /\ start_thread("system")
    /\ UNCHANGED <<client_spec, vendor_start_btn, load_properties_btn, current_mode,
                   tuningVars, notGuiVars>>

\* Apply of the tuning tab: on_apply_tuning up to the start of apply_thread
on_apply_tuning ==
    /\ current_mode = "tuning" /\ apply_tuning_btn = "normal"
    /\ tuning_stage = "loaded"
    /\ ~ properties_unchanged(original_properties, get_table_properties(properties_tree))
    /\ Len(threads) < MaxThreads
    /\ apply_tuning_btn' = "disabled"
    /\ load_properties_btn' = "disabled"
    /\ start_thread("tuning")
    /\ UNCHANGED <<client_spec, vendor_start_btn, system_start_btn, current_mode,
                   file_lines, properties_tree, original_properties, properties_dict,
                   tuning_stage, edits, notGuiVars>>

\* a worker runs "p4 client -o"
thread_fetch ==
    /\ \E t \in 1..Len(threads) :
          /\ threads[t].pc = "fetch"
          /\ threads' = [threads EXCEPT ![t] = [@ EXCEPT !.pc = "submit", !.lines = client_spec]]
    /\ UNCHANGED <<client_spec, vendor_start_btn, system_start_btn, load_properties_btn,
                   current_mode, tuningVars, notGuiVars>>

\* a worker runs "p4 client -i" with the spec it fetched and edited
thread_submit ==
    /\ \E t \in 1..Len(threads) :
          /\ threads[t].pc = "submit"
          /\ client_spec' = map_client_depots(threads[t].lines, WorkflowDepots[threads[t].workflow])
          /\ threads' = [threads EXCEPT ![t] = [@ EXCEPT !.pc = "mapped"]]
    /\ UNCHANGED <<vendor_start_btn, system_start_btn, load_properties_btn,
                   current_mode, tuningVars, notGuiVars>>

\* a worker ends: the finally clause enables the buttons of its tab again
thread_exit ==
    /\ \E t \in 1..Len(threads) :
          /\ threads[t].pc = "mapped"
          /\ threads' = [threads EXCEPT ![t] = [@ EXCEPT !.pc = "exited"]]
          /\ vendor_start_btn' =
                 IF threads[t].workflow = "vendor" THEN "normal" ELSE vendor_start_btn
          /\ system_start_btn' =
                 IF threads[t].workflow = "system" THEN "normal" ELSE system_start_btn
          /\ apply_tuning_btn' =
                 IF threads[t].workflow = "tuning" THEN "normal" ELSE apply_tuning_btn
          /\ load_properties_btn' =
                 IF threads[t].workflow = "tuning" THEN "normal" ELSE load_properties_btn
    /\ UNCHANGED <<client_spec, current_mode, file_lines, properties_tree,
                   original_properties, properties_dict, tuning_stage, edits, notGuiVars>>

NextGui ==
    \/ switch_mode
    \/ on_vendor_start
    \/ on_system_start
    \/ on_apply_tuning
    \/ add_property
    \/ thread_fetch
    \/ thread_submit
    \/ thread_exit

SpecGui == InitGui /\ [][NextGui]_vars

Running == {t \in 1..Len(threads) : threads[t].pc # "exited"}
InView(line) == \E n \in 1..Len(client_spec) : client_spec[n] = line
Mapped(t) ==
    \A i \in 1..Len(WorkflowDepots[threads[t].workflow]) :
        InView(mapping_line(WorkflowDepots[threads[t].workflow][i]))

\* C7: at most one workflow issues depot commands at any time, and every
\* mapping line a workflow wrote to the client spec is still in it.
C7_SingleWriter ==
    /\ Cardinality(Running) <= 1
    /\ \A t \in 1..Len(threads) : threads[t].pc \in {"mapped", "exited"} => Mapped(t)

(***************************************************************************)
(* Workflow runs: vendor bring-up, tuning apply, LoadApkAsset               *)
(***************************************************************************)
VINCE == "VINCE"

\* the order in which bring-up and tuning collect their targets
TargetOrder == <<"BENI", "FLUMEN", "REL">>

\* the order in which LoadApkAsset cascades
CascadeOrder == <<"REL", "FLUMEN", "BENI">>

\* the targets a run can be given, in the order the run processes them:
\* the targets supplied, or the cascade from the first branch supplied
TargetLists(p) ==
    IF p = "loadapkasset"
    THEN {SubSeq(CascadeOrder, n, 3) : n \in {k \in 1..3 : 4 - k <= MaxTargets}}
    ELSE {SelectSeq(TargetOrder, LAMBDA t : t \in chosen) :
              chosen \in {c \in SUBSET BranchNames : Cardinality(c) \in 1..MaxTargets}}

Targets == {valid_targets[i] : i \in 1..Len(valid_targets)}

Synced(path) == Append(run_log, [op |-> "sync", path |-> path])
Updated(path) ==
    run_log \o << [op |-> "read", path |-> path], [op |-> "write", path |-> path] >>

InitRun ==
    /\ process \in {"vendor", "tuning", "loadapkasset"}
    /\ valid_targets \in TargetLists(process)
    /\ changed_targets \in SUBSET Targets
    /\ local_copies \in SUBSET Targets
    /\ failing_syncs \in SUBSET (Targets \cup (IF process = "vendor" THEN {VINCE} ELSE {}))
    /\ vince_properties \in (IF process = "vendor" THEN BOOLEAN ELSE {TRUE})
    /\ supplied_changelist \in (IF process = "loadapkasset" THEN BOOLEAN ELSE {FALSE})
    /\ step = "start"
    /\ target_idx = 1
    /\ files_need_update = <<>>
    /\ changelists = 0
    /\ run_log = <<>>
    /\ reported_updated = {}
    /\ reported_failed = {}
    /\ RewriteIdle
    /\ TuningIdle
    /\ CascadeIdle
    /\ GuiIdle
    /\ MapIdle
    /\ DiffIdle
    /\ WalkerIdle
    /\ ResolveIdle
    /\ ParseIdle
    /\ ExtractIdle
    /\ CheckoutIdle
    /\ BringupIdle
    /\ LocalIdle

\* run_bringup_process, step 2: the client spec is mapped; a failure ends the run
bringup_map ==
    /\ process = "vendor"
    /\ step = "start"
    /\ \E ok \in BOOLEAN : step' = IF ok THEN "sync_vince" ELSE "done"
    /\ UNCHANGED <<process, valid_targets, changed_targets, local_copies, failing_syncs,
                   vince_properties, supplied_changelist, target_idx, files_need_update,
                   changelists, run_log, reportVars, notRunVars>>

\* step 3, VINCE: a failed sync ends the run
bringup_sync_vince ==
    /\ process = "vendor"
    /\ step = "sync_vince"
    /\ IF VINCE \in failing_syncs
       THEN /\ step' = "done"
            /\ UNCHANGED <<run_log, local_copies>>
       ELSE /\ step' = "sync_targets"
            /\ run_log' = Synced(VINCE)
            /\ local_copies' = local_copies \cup {VINCE}
    /\ target_idx' = 1
    /\ UNCHANGED <<process, valid_targets, changed_targets, failing_syncs, vince_properties,
                   supplied_changelist, files_need_update, changelists, reportVars, notRunVars>>

\* step 3, one target: a failed sync is logged and the loop goes on
bringup_sync_target ==
    /\ process = "vendor"
    /\ step = "sync_targets"
    /\ target_idx <= Len(valid_targets)
    /\ IF valid_targets[target_idx] \in failing_syncs
       THEN UNCHANGED <<run_log, local_copies>>
       ELSE /\ run_log' = Synced(valid_targets[target_idx])
            /\ local_copies' = local_copies \cup {valid_targets[target_idx]}
    /\ target_idx' = target_idx + 1
    /\ UNCHANGED <<process, valid_targets, changed_targets, failing_syncs, vince_properties,
                   supplied_changelist, step, files_need_update, changelists, reportVars, notRunVars>>

\* step 4: the VINCE file is read; without an LMKD or Chimera block the run ends
bringup_validate_vince ==
    /\ process = "vendor"
    /\ step = "sync_targets"
    /\ target_idx > Len(valid_targets)
    /\ run_log' = Append(run_log, [op |-> "read", path |-> VINCE])
    /\ step' = IF vince_properties THEN "compare" ELSE "done"
    /\ target_idx' = 1
    /\ UNCHANGED <<process, valid_targets, changed_targets, local_copies, failing_syncs,
                   vince_properties, supplied_changelist, files_need_update, changelists,
                   reportVars, notRunVars>>

\* step 5, one target: a local copy that cannot be opened counts as holding no
\* block and is queued; one that can is read and queued when it differs
bringup_compare ==
    /\ process = "vendor"
    /\ step = "compare"
    /\ target_idx <= Len(valid_targets)
    /\ LET target == valid_targets[target_idx] IN
         IF target \notin local_copies
         THEN /\ files_need_update' = Append(files_need_update, target)
              /\ UNCHANGED run_log
         ELSE /\ run_log' = Append(run_log, [op |-> "read", path |-> target])
              /\ files_need_update' = IF target \in changed_targets
                                      THEN Append(files_need_update, target)
                                      ELSE files_need_update
    /\ target_idx' = target_idx + 1
    /\ UNCHANGED <<process, valid_targets, changed_targets, local_copies, failing_syncs,
                   vince_properties, supplied_changelist, step, changelists, reportVars, notRunVars>>

\* steps 6 and 7: nothing queued ends the run, otherwise the changelist is created
bringup_create_changelist ==
    /\ process = "vendor"
    /\ step = "compare"
    /\ target_idx > Len(valid_targets)
    /\ IF files_need_update = <<>>
       THEN /\ step' = "done"
            /\ UNCHANGED changelists
       ELSE /\ step' = "update"
            /\ changelists' = changelists + 1
    /\ target_idx' = 1
    /\ UNCHANGED <<process, valid_targets, changed_targets, local_copies, failing_syncs,
                   vince_properties, supplied_changelist, files_need_update, run_log,
                   reportVars, notRunVars>>

\* step 7, one queued target: checkout, then the local copy is read and
\* rewritten; a failure of either is logged and the loop goes on
bringup_update ==
    /\ process = "vendor"
    /\ step = "update"
    /\ target_idx <= Len(files_need_update)
    /\ \E checked_out \in BOOLEAN :
         IF checked_out /\ files_need_update[target_idx] \in local_copies
         THEN /\ run_log' = Updated(files_need_update[target_idx])
              /\ UNCHANGED reported_failed
         ELSE /\ reported_failed' = reported_failed \cup {files_need_update[target_idx]}
              /\ UNCHANGED run_log
    /\ target_idx' = target_idx + 1
    /\ UNCHANGED <<process, valid_targets, changed_targets, local_copies, failing_syncs,
                   vince_properties, supplied_changelist, step, files_need_update,
                   changelists, reported_updated, notRunVars>>

\* step 8: the summary lists every queued target as updated
bringup_finish ==
    /\ process = "vendor"
    /\ step = "update"
    /\ target_idx > Len(files_need_update)
    /\ step' = "done"
    /\ reported_updated' = {files_need_update[i] : i \in 1..Len(files_need_update)}
    /\ UNCHANGED <<process, valid_targets, changed_targets, local_copies, failing_syncs,
                   vince_properties, supplied_changelist, target_idx, files_need_update,
                   changelists, run_log, reported_failed, notRunVars>>

\* apply_tuning_changes_enhanced, step 1: the changelist is created first
tuning_create_changelist ==
    /\ process = "tuning"
    /\ step = "start"
    /\ changelists' = changelists + 1
    /\ step' = "map"
    /\ UNCHANGED <<process, valid_targets, changed_targets, local_copies, failing_syncs,
                   vince_properties, supplied_changelist, target_idx, files_need_update,
                   run_log, reportVars, notRunVars>>

\* the depot paths are mapped; a failure ends the run
tuning_map ==
    /\ process = "tuning"
    /\ step = "map"
    /\ \E ok \in BOOLEAN : step' = IF ok THEN "targets" ELSE "done"
    /\ UNCHANGED <<process, valid_targets, changed_targets, local_copies, failing_syncs,
                   vince_properties, supplied_changelist, target_idx, files_need_update,
                   changelists, run_log, reportVars, notRunVars>>

\* step 2, one target: sync, checkout, rewrite; any failure ends the run
tuning_target ==
    /\ process = "tuning"
    /\ step = "targets"
    /\ target_idx <= Len(valid_targets)
    /\ LET target == valid_targets[target_idx] IN
         IF target \in failing_syncs
         THEN /\ step' = "done"
              /\ reported_failed' = reported_failed \cup {target}
              /\ UNCHANGED <<run_log, local_copies, target_idx, reported_updated>>
         ELSE /\ local_copies' = local_copies \cup {target}
              /\ \E checked_out \in BOOLEAN :
                   IF checked_out
                   THEN /\ run_log' = Synced(target) \o
                                      << [op |-> "read", path |-> target],
                                         [op |-> "write", path |-> target] >>
                        /\ target_idx' = target_idx + 1
                        /\ reported_updated' = reported_updated \cup {target}
                        /\ UNCHANGED <<step, reported_failed>>
                   ELSE /\ run_log' = Synced(target)
                        /\ step' = "done"
                        /\ reported_failed' = reported_failed \cup {target}
                        /\ UNCHANGED <<target_idx, reported_updated>>
    /\ UNCHANGED <<process, valid_targets, changed_targets, failing_syncs, vince_properties,
                   supplied_changelist, files_need_update, changelists, notRunVars>>

tuning_finish ==
    /\ process = "tuning"
    /\ step = "targets"
    /\ target_idx > Len(valid_targets)
    /\ step' = "done"
    /\ UNCHANGED <<process, valid_targets, changed_targets, local_copies, failing_syncs,
                   vince_properties, supplied_changelist, target_idx, files_need_update,
                   changelists, run_log, reportVars, notRunVars>>

\* run_loadapkasset_process: a changelist is created unless the caller gave one
loadapkasset_changelist ==
    /\ process = "loadapkasset"
    /\ step = "start"
    /\ changelists' = IF supplied_changelist THEN changelists ELSE changelists + 1
    /\ step' = "branches"
    /\ UNCHANGED <<process, valid_targets, changed_targets, local_copies, failing_syncs,
                   vince_properties, supplied_changelist, target_idx, files_need_update,
                   run_log, reportVars, notRunVars>>

\* one branch of the cascade: a later branch without an integration source is
\* skipped; otherwise the file is validated and mapped, synced, checked out,
\* read, and rewritten when assets are missing from it.  After a failure the
\* user chooses between the remaining branches and the end of the run.
loadapkasset_branch ==
    /\ process = "loadapkasset"
    /\ step = "branches"
    /\ target_idx <= Len(valid_targets)
    /\ LET branch == valid_targets[target_idx] IN
       \E failure \in {"none", "no_integration", "validate", "checkout"}, response \in BOOLEAN :
         /\ failure = "no_integration" => target_idx > 1
         /\ CASE failure = "no_integration" ->
                   /\ target_idx' = target_idx + 1
                   /\ UNCHANGED <<run_log, local_copies, step>>
              [] failure = "validate" \/ (failure # "no_integration" /\ branch \in failing_syncs) ->
                   /\ UNCHANGED <<run_log, local_copies>>
                   /\ IF response
                      THEN target_idx' = target_idx + 1 /\ UNCHANGED step
                      ELSE step' = "done" /\ UNCHANGED target_idx
              [] failure = "checkout" /\ branch \notin failing_syncs ->
                   /\ run_log' = Synced(branch)
                   /\ local_copies' = local_copies \cup {branch}
                   /\ IF response
                      THEN target_idx' = target_idx + 1 /\ UNCHANGED step
                      ELSE step' = "done" /\ UNCHANGED target_idx
              [] OTHER ->
                   /\ run_log' = Synced(branch) \o
                                 << [op |-> "read", path |-> branch] >> \o
                                 (IF branch \in changed_targets
                                  THEN << [op |-> "write", path |-> branch] >>
                                  ELSE <<>>)
                   /\ local_copies' = local_copies \cup {branch}
                   /\ target_idx' = target_idx + 1
                   /\ UNCHANGED step
    /\ UNCHANGED <<process, valid_targets, changed_targets, failing_syncs, vince_properties,
                   supplied_changelist, files_need_update, changelists, reportVars, notRunVars>>

loadapkasset_finish ==
    /\ process = "loadapkasset"
    /\ step = "branches"
    /\ target_idx > Len(valid_targets)
    /\ step' = "done"
    /\ UNCHANGED <<process, valid_targets, changed_targets, local_copies, failing_syncs,
                   vince_properties, supplied_changelist, target_idx, files_need_update,
                   changelists, run_log, reportVars, notRunVars>>

NextRun ==
    \/ bringup_map
    \/ bringup_sync_vince
    \/ bringup_sync_target
    \/ bringup_validate_vince
    \/ bringup_compare
    \/ bringup_create_changelist
    \/ bringup_update
    \/ bringup_finish
    \/ tuning_create_changelist
    \/ tuning_map
    \/ tuning_target
    \/ tuning_finish
    \/ loadapkasset_changelist
    \/ loadapkasset_branch
    \/ loadapkasset_finish

SpecRun == InitRun /\ [][NextRun]_vars

\* a file that needs modification has been found by the run
FoundNeedingChange ==
    \/ files_need_update # <<>>
    \/ \E n \in 1..Len(run_log) :
         run_log[n].op = "read" /\ run_log[n].path \in changed_targets

\* C8: a run creates at most one changelist, and creates it only once a file
\* has been found to need modification; a run in which no file needs to
\* change creates none.
C8_LazySingleChangelist ==
    /\ changelists <= 1
    /\ changelists = 1 => FoundNeedingChange

SyncedBefore(n) ==
    \E m \in 1..(n - 1) : run_log[m] = [op |-> "sync", path |-> run_log[n].path]

\* C9: every read and every write of a local file in a run comes after a
\* sync of its depot path that succeeded in the same run.
C9_SyncBeforeUse ==
    \A n \in 1..Len(run_log) : run_log[n].op \in {"read", "write"} => SyncedBefore(n)

\* the targets whose local file the run rewrote
Written == {run_log[n].path : n \in {k \in 1..Len(run_log) : run_log[k].op = "write"}}

\* the targets queued for an update by a bring-up run that reached its summary
UpdateQueue ==
    IF process = "vendor" /\ step = "done" /\ changelists = 1
    THEN {files_need_update[i] : i \in 1..Len(files_need_update)}
    ELSE {}

\* C13: when a bring-up update or a tuning apply has ended, the targets it
\* names as updated are exactly the targets whose file was rewritten, and
\* every target whose checkout or update failed is named as failed.
C13_FaithfulReport ==
    (process \in {"vendor", "tuning"} /\ step = "done") =>
        /\ reported_updated = Written
        /\ reported_failed \cap Written = {}
        /\ process = "vendor" => reported_failed = UpdateQueue \ Written

(***************************************************************************)
(* Client mapping: fetch the client spec, rewrite its view, submit it      *)
(***************************************************************************)
\* str.splitlines() of a text whose only line break is "\n"
RECURSIVE SplitLines(_)
SplitLines(text) ==
    IF text = <<>> THEN <<>>
    ELSE IF HasChar(text, NL) THEN <<Before(text, NL)>> \o SplitLines(After(text, NL))
    ELSE <<text>>

\* "\n".join(lines)
RECURSIVE JoinLines(_)
JoinLines(text_lines) ==
    IF text_lines = <<>> THEN <<>>
    ELSE IF Len(text_lines) = 1 THEN text_lines[1]
    ELSE text_lines[1] \o <<NL>> \o JoinLines(Tail(text_lines))

\* run_cmd("p4 client -o"): the server's text, stripped
fetch_client_spec(text) == Strip(text)

\* _map_client_depots_core: the text handed to "p4 client -i"
new_spec(text, depot_paths) ==
    JoinLines(map_client_depots(SplitLines(fetch_client_spec(text)), depot_paths))

\* the depot paths a mapping can be given; the second holds the first as a substring
PathA == <<"//", "depot", "/", "a.mk">>
PathAB == <<"//", "depot", "/", "a.mk", ".bak">>
PathC == <<"//", "depot", "/", "c.mk">>
MapPaths == {PathA, PathAB, PathC}

\* a line of the Description field that mentions a depot path
DescriptionLine == <<TAB, "Created", SP, "for", SP>> \o PathA

\* the lines a client spec can hold after its first line
SpecLines ==
    {<<>>, <<"View:">>, DescriptionLine, <<TAB, "//", "depot", "/", "x.mk", SP, "//", ClientName, "/", "x.mk">>}
        \cup {mapping_line(path) : path \in MapPaths}

\* the client specs the server can hold: "p4 client -o" starts with the Client
\* field and ends with a line break
ClientSpecs ==
    {JoinLines(<< <<"Client:", TAB, ClientName>> >> \o body) \o <<NL>> :
        body \in UNION {[1..n -> SpecLines] : n \in 0..MaxSpecLines}}

InitMap ==
    /\ server_spec \in ClientSpecs
    /\ map_paths \in UNION {[1..n -> MapPaths] : n \in 0..MaxPaths}
    /\ mapper \in {"_map_client_depots_core", "P4ClientMapper"}
    /\ submitted = <<>>
    /\ RewriteIdle
    /\ TuningIdle
    /\ CascadeIdle
    /\ GuiIdle
    /\ RunIdle
    /\ DiffIdle
    /\ WalkerIdle
    /\ ResolveIdle
    /\ ParseIdle
    /\ ExtractIdle
    /\ CheckoutIdle
    /\ BringupIdle
    /\ LocalIdle

\* _map_client_depots_core(depot_paths): fetch, rewrite, submit
map_client_depots_core ==
    /\ mapper = "_map_client_depots_core"
    /\ Len(submitted) < 2
    /\ server_spec' = new_spec(server_spec, map_paths)
    /\ submitted' = Append(submitted, server_spec')
    /\ UNCHANGED <<map_paths, mapper, notMapVars>>

\* P4ClientMapper.map_depots(depot_paths): nothing is done for an empty list
P4ClientMapper_map_depots ==
    /\ mapper = "P4ClientMapper"
    /\ Len(submitted) < 2
    /\ IF map_paths = <<>>
       THEN UNCHANGED server_spec
       ELSE server_spec' = new_spec(server_spec, map_paths)
    /\ submitted' = Append(submitted, server_spec')
    /\ UNCHANGED <<map_paths, mapper, notMapVars>>

NextMap == map_client_depots_core \/ P4ClientMapper_map_depots

SpecMap == InitMap /\ [][NextMap]_vars

\* C14: after two runs of the mapping with the same depot paths the client
\* spec is the one the first run left.
C14_MappingIdempotent == Len(submitted) = 2 => submitted[2] = submitted[1]

\* a second run that had mapping lines of its paths to replace
C14_Witness ==
    /\ Len(submitted) = 2
    /\ submitted[2] = submitted[1]
    /\ Len(map_paths) = 2 /\ map_paths[1] # map_paths[2]
    /\ \E n \in 1..Len(SplitLines(submitted[1])) :
         SplitLines(submitted[1])[n] = mapping_line(map_paths[1])

\* a line of the View field: a tab, then a depot path
IsViewLine(line) == Len(line) >= 2 /\ line[1] = TAB /\ line[2] = "//"

\* the depot side of a view line: from the depot path's "//" to the next blank
DepotSide(line) == SplitFirst(SplitFirst(Tail(line), TAB), SP)

\* the view lines the mapping is to replace
OldMapping(line, depot_paths) ==
    /\ IsViewLine(line)
    /\ \E i \in 1..Len(depot_paths) : Contains(DepotSide(line), depot_paths[i])

\* C15: a mapping run submits the fetched spec without the view lines whose
\* depot side contains one of the depot paths, every other line unchanged and
\* in order, followed by one mapping line per depot path, in input order,
\* whose client side is "//<client name>/" and the depot path without its "//".
C15_MappingEffect ==
    [][(mapper = "_map_client_depots_core" \/ map_paths # <<>>) =>
         SplitLines(server_spec') =
             SelectSeq(SplitLines(fetch_client_spec(server_spec)),
                       LAMBDA line : ~OldMapping(line, map_paths))
             \o [i \in 1..Len(map_paths) |->
                   <<TAB>> \o map_paths[i] \o <<TAB, "//", ClientName, "/">> \o Tail(map_paths[i])]]_vars

(***************************************************************************)
(* Property diff                                                           *)
(***************************************************************************)
\* the value the diff uses for a key that one side does not have
MISSING == <<"<missing>">>

\* dict.get(key, "<missing>")
GetOrMissing(d, key) == IF DictHas(d, key) THEN DictGet(d, key) ELSE MISSING

\* the loop of compare_property_dict over the keys still to visit
RECURSIVE CompareKeys(_, _, _, _)
CompareKeys(all_keys, dict1, dict2, category) ==
    IF all_keys = {} THEN <<>>
    ELSE LET key == CHOOSE k \in all_keys : TRUE
             val1 == GetOrMissing(dict1, key)
             val2 == GetOrMissing(dict2, key)
         IN  (IF val1 # val2
              THEN << [category |-> category, key |-> key, val1 |-> val1, val2 |-> val2] >>
              ELSE <<>>)
             \o CompareKeys(all_keys \ {key}, dict1, dict2, category)

\* mutant: only the keys of the first mapping are visited
compare_property_dict_left(dict1, dict2, category) ==
    CompareKeys(DictKeys(dict1), dict1, dict2, category)

\* compare_property_dict: one record per key of either side whose values differ
compare_property_dict(dict1, dict2, category) ==
    CompareKeys(DictKeys(dict1) \cup DictKeys(dict2), dict1, dict2, category)

\* compare_properties: the LMKD records, then the Chimera records
compare_properties(props1, props2) ==
    compare_property_dict(props1.LMKD, props2.LMKD, "LMKD")
        \o compare_property_dict(props1.Chimera, props2.Chimera, "Chimera")

\* the keys and values of the mappings compared
DiffKeyOrder == << <<"low_mem">>, <<"b">>, <<"c">> >>
DiffKeys == {DiffKeyOrder[i] : i \in 1..MaxDiffKeys}
DiffValues == {<<"1">>, <<"2">>, MISSING}

\* the mappings over a set of keys, each key absent or bound to a value
DiffDicts(keys) ==
    {SelectSeq([i \in 1..Len(DiffKeyOrder) |->
                   [k |-> DiffKeyOrder[i],
                    v |-> IF DiffKeyOrder[i] \in DOMAIN f THEN f[DiffKeyOrder[i]] ELSE <<>>]],
               LAMBDA e : e.k \in DOMAIN f) :
        f \in UNION {[chosen -> DiffValues] : chosen \in SUBSET keys}}

DiffMappings ==
    [LMKD : DiffDicts(DiffKeys), Chimera : {<<>>, << [k |-> <<"c">>, v |-> <<"1">>] >>,
                                            << [k |-> <<"c">>, v |-> <<"2">>] >>}]

InitDiff ==
    /\ diff_left \in DiffMappings
    /\ diff_right \in DiffMappings
    /\ diff_forward = <<>>
    /\ diff_backward = <<>>
    /\ diff_done = {}
    /\ RewriteIdle
    /\ TuningIdle
    /\ CascadeIdle
    /\ GuiIdle
    /\ RunIdle
    /\ MapIdle
    /\ WalkerIdle
    /\ ResolveIdle
    /\ ParseIdle
    /\ ExtractIdle
    /\ CheckoutIdle
    /\ BringupIdle
    /\ LocalIdle

\* compare_properties(left, right)
compare_forward ==
    /\ "forward" \notin diff_done
    /\ diff_forward' = compare_properties(diff_left, diff_right)
    /\ diff_done' = diff_done \cup {"forward"}
    /\ UNCHANGED <<diff_left, diff_right, diff_backward, notDiffVars>>

\* compare_properties(right, left)
compare_backward ==
    /\ "backward" \notin diff_done
    /\ diff_backward' = compare_properties(diff_right, diff_left)
    /\ diff_done' = diff_done \cup {"backward"}
    /\ UNCHANGED <<diff_left, diff_right, diff_forward, notDiffVars>>

NextDiff == compare_forward \/ compare_backward

SpecDiff == InitDiff /\ [][NextDiff]_vars

\* the (category, key) pairs a diff reports
Reported(records) == {<<records[n].category, records[n].key>> : n \in 1..Len(records)}

Swapped(record) ==
    [category |-> record.category, key |-> record.key,
     val1 |-> record.val2, val2 |-> record.val1]

\* C16: diff(A, B) and diff(B, A) report the same (category, key) pairs, and
\* each record of diff(B, A) is a record of diff(A, B) with its values swapped.
C16_DiffSymmetric ==
    diff_done = {"forward", "backward"} =>
        /\ Reported(diff_forward) = Reported(diff_backward)
        /\ \A n \in 1..Len(diff_backward) :
             \E m \in 1..Len(diff_forward) : diff_backward[n] = Swapped(diff_forward[m])

\* both directions computed, with a key that only the right side has
C16_Witness ==
    /\ diff_done = {"forward", "backward"}
    /\ \E n \in 1..Len(diff_forward) :
         /\ ~DictHas(diff_left[diff_forward[n].category], diff_forward[n].key)
         /\ diff_backward # <<>>

\* the key is bound on one side only, or bound to different values
Differs(dict1, dict2, key) ==
    \/ DictHas(dict1, key) # DictHas(dict2, key)
    \/ DictHas(dict1, key) /\ DictHas(dict2, key) /\ DictGet(dict1, key) # DictGet(dict2, key)

RecordsFor(records, category, key) ==
    Cardinality({n \in 1..Len(records) : records[n].category = category /\ records[n].key = key})

\* C17: diff(A, B) holds exactly one record for every (category, key) whose
\* values differ or that one side lacks, none for a key with equal values, and
\* is empty exactly when both categories of A and B are equal.
C17_DiffCorrect ==
    "forward" \in diff_done =>
        /\ \A category \in Categories :
             \A key \in DictKeys(diff_left[category]) \cup DictKeys(diff_right[category]) :
                 RecordsFor(diff_forward, category, key) =
                     IF Differs(diff_left[category], diff_right[category], key) THEN 1 ELSE 0
        /\ \A n \in 1..Len(diff_forward) :
             diff_forward[n].key \in DictKeys(diff_left[diff_forward[n].category])
                                       \cup DictKeys(diff_right[diff_forward[n].category])
        /\ (diff_forward = <<>>) <=> properties_unchanged(diff_left, diff_right)

(***************************************************************************)
(* Integration history walker: parsing the output of p4 filelog            *)
(***************************************************************************)
COMMA == ","

\* the marker of an integration record, "... ... branch from "
BRANCH_FROM == <<"...", SP, "...", SP, "branch", SP, "from", SP>>

\* the value returned when no source is found
NoPath == <<"None">>

\* line.startswith(prefix)
StartsWithSeq(s, prefix) == Len(s) >= Len(prefix) /\ SubSeq(s, 1, Len(prefix)) = prefix

\* index of the first occurrence of sub in s (0 when absent)
IndexOfSeq(s, sub) ==
    IF Contains(s, sub)
    THEN CHOOSE i \in 1..(Len(s) - Len(sub) + 1) :
             /\ SubSeq(s, i, i + Len(sub) - 1) = sub
             /\ \A j \in 1..(i - 1) : SubSeq(s, j, j + Len(sub) - 1) # sub
    ELSE 0

\* s.split(sub)[1], for s containing sub
SecondPiece(s, sub) ==
    LET rest == SubSeq(s, IndexOfSeq(s, sub) + Len(sub), Len(s))
    IN  IF Contains(rest, sub) THEN SubSeq(rest, 1, IndexOfSeq(rest, sub) - 1) ELSE rest

\* text.split("\n")
RECURSIVE SplitNL(_)
SplitNL(text) ==
    IF HasChar(text, NL) THEN <<Before(text, NL)>> \o SplitNL(After(text, NL)) ELSE <<text>>

\* p4_operations.get_integration_source_depot_path: the source named by a marker line
source_path_p4_operations(line) ==
    SplitFirst(SplitFirst(SecondPiece(line, <<"from", SP>>), HASH), COMMA)

\* AutoResolver.get_integration_source_depot_path: the source named by a marker line
source_path_core_utils(line) ==
    SplitFirst(SubSeq(line, Len(BRANCH_FROM) + 1, Len(line)), HASH)

\* the loop over the lines of the output: the first marker line decides
RECURSIVE FirstBranchFrom(_, _, _)
FirstBranchFrom(output_lines, i, implementation) ==
    IF i > Len(output_lines) THEN NoPath
    ELSE IF StartsWithSeq(Strip(output_lines[i]), BRANCH_FROM)
         THEN IF implementation = "p4_operations"
              THEN source_path_p4_operations(Strip(output_lines[i]))
              ELSE source_path_core_utils(Strip(output_lines[i]))
         ELSE FirstBranchFrom(output_lines, i + 1, implementation)

\* get_integration_source_depot_path: a command that cannot be run, exits
\* non-zero or prints nothing gives None, like an output without marker line
integration_source(outcome, output, implementation) ==
    IF outcome # "ok" THEN [outcome |-> "returned", value |-> NoPath]
    ELSE IF Strip(output) = <<>> THEN [outcome |-> "returned", value |-> NoPath]
    ELSE [outcome |-> "returned",
          value |-> FirstBranchFrom(SplitNL(Strip(output)), 1, implementation)]

\* the source paths and the lines p4 filelog can print
SourcePlain == <<"//", "depot", "/", "FLUMEN", "/", "a.mk">>
SourceOther == <<"//", "depot", "/", "REL", "/", "a.mk">>
SourceComma == <<"//", "depot", "/", "FLUMEN", "/", "a", COMMA, "b.mk">>
SourcePaths == {SourcePlain, SourceOther, SourceComma}
RevisionSuffixes == {<<HASH, "1">>, <<HASH, "1", COMMA, HASH, "3">>}

MarkerLines == {BRANCH_FROM \o path \o suffix : path \in SourcePaths, suffix \in RevisionSuffixes}

FilelogLines ==
    MarkerLines \cup
    { <<"//", "depot", "/", "BENI", "/", "a.mk">>,
      <<"...", SP, HASH, "1", SP, "change", SP, "7", SP, "branch">>,
      <<"...", SP, "...", SP, "copy", SP, "from", SP>> \o SourceOther \o <<HASH, "2">> }

FilelogOutputs ==
    {JoinLines(output_lines) \o <<NL>> :
        output_lines \in UNION {[1..n -> FilelogLines] : n \in 1..MaxLogLines}} \cup {<<>>}

Implementations == {"p4_operations", "core_utils"}
Pending == [outcome |-> "pending", value |-> NoPath]

InitWalker ==
    /\ command_outcome \in {"ok", "nonzero", "cannot_run"}
    /\ filelog_output \in (IF command_outcome = "ok" THEN FilelogOutputs ELSE {<<>>})
    /\ walker_result = [implementation \in Implementations |-> Pending]
    /\ RewriteIdle
    /\ TuningIdle
    /\ CascadeIdle
    /\ GuiIdle
    /\ RunIdle
    /\ MapIdle
    /\ DiffIdle
    /\ ResolveIdle
    /\ ParseIdle
    /\ ExtractIdle
    /\ CheckoutIdle
    /\ BringupIdle
    /\ LocalIdle

\* get_integration_source_depot_path of core/p4_operations.py
walk_p4_operations ==
    /\ walker_result["p4_operations"] = Pending
    /\ walker_result' = [walker_result EXCEPT !["p4_operations"] =
                            integration_source(command_outcome, filelog_output, "p4_operations")]
    /\ UNCHANGED <<filelog_output, command_outcome, notWalkerVars>>

\* AutoResolver.get_integration_source_depot_path of core/core_utils.py
walk_core_utils ==
    /\ walker_result["core_utils"] = Pending
    /\ walker_result' = [walker_result EXCEPT !["core_utils"] =
                            integration_source(command_outcome, filelog_output, "core_utils")]
    /\ UNCHANGED <<filelog_output, command_outcome, notWalkerVars>>

NextWalker == walk_p4_operations \/ walk_core_utils

SpecWalker == InitWalker /\ [][NextWalker]_vars

\* the marker lines of the output, in output order
MarkerIndexes ==
    {n \in 1..Len(SplitNL(filelog_output)) :
        StartsWithSeq(SplitNL(filelog_output)[n], BRANCH_FROM)}

\* the source path of the first marker line: what follows the marker, up to
\* the revision suffix
FirstSource ==
    IF MarkerIndexes = {} THEN NoPath
    ELSE LET n == CHOOSE k \in MarkerIndexes : \A j \in MarkerIndexes : k <= j
             line == SplitNL(filelog_output)[n]
         IN  CHOOSE path \in SourcePaths :
                 \E suffix \in RevisionSuffixes : line = BRANCH_FROM \o path \o suffix

\* C18: on an output of a command that succeeded, each implementation of the
\* walker returns the source path of the first marker line without its
\* revision suffix, or None when there is no marker line.
C18_FirstMarkerSource ==
    \A implementation \in Implementations :
        (command_outcome = "ok" /\ walker_result[implementation] # Pending) =>
            walker_result[implementation] = [outcome |-> "returned", value |-> FirstSource]

\* C19: when the command exits non-zero or cannot be run the walker raises,
\* and it returns None only for a command that succeeded without marker line.
C19_FailurePropagated ==
    \A implementation \in Implementations :
        walker_result[implementation] # Pending =>
            /\ command_outcome # "ok" => walker_result[implementation].outcome = "raised"
            /\ walker_result[implementation] = [outcome |-> "returned", value |-> NoPath] =>
                   (command_outcome = "ok" /\ MarkerIndexes = {})

\* ---------------------------------------------------------------------------
\* Workspace resolution: from a workspace's view table to device_common.mk
\* ---------------------------------------------------------------------------

\* A depot path is the sequence of its segments below "//", and a segment is
\* the sequence of its pieces between "_": //depot/REL/device/a_common/... is
\* <<<<"depot">>, <<"REL">>, <<"device">>, <<"a", "common">>, <<"...">>>>.
MaxViews == 2

DEVICE == <<"device">>
DOTS == <<"...">>
DEVICE_COMMON_MK == <<"device", "common.mk">>
NoDepotPath == <<<<"None">>>>

\* [^/]+?_common/ : a segment that ends with _common after at least one
\* character, followed by a further segment
IsCommonSegment(segment) ==
    /\ Len(segment) >= 2
    /\ segment[Len(segment)] = "common"
    /\ (Len(segment) > 2 \/ segment[1] # "")

\* the positions at which /device/<model>_common/ matches
DeviceCommonMatches(depot_path) ==
    {n \in 1..(Len(depot_path) - 2) :
        depot_path[n] = DEVICE /\ IsCommonSegment(depot_path[n + 1])}

\* str.rstrip('...') on the last piece of a path; the pieces of the model
\* have dots at their end only when they are "..."
RStripDots(piece) == IF piece = "..." THEN "" ELSE piece

\* clean_path = depot_path.rstrip('...'); clean_path + "device_common.mk"
device_common_path(depot_path) ==
    LET last == depot_path[Len(depot_path)]
        stem == SubSeq(last, 1, Len(last) - 1)
        tail == RStripDots(last[Len(last)]) \o DEVICE_COMMON_MK[1]
    IN  SubSeq(depot_path, 1, Len(depot_path) - 1)
            \o <<stem \o <<tail>> \o SubSeq(DEVICE_COMMON_MK, 2, 2)>>

\* the candidates of find_device_common_mk_path, in table order
RECURSIVE device_common_paths(_)
device_common_paths(views) ==
    IF views = <<>> THEN <<>>
    ELSE (IF DeviceCommonMatches(Head(views)) # {}
              THEN <<device_common_path(Head(views))>> ELSE <<>>)
             \o device_common_paths(Tail(views))

\* find_device_common_mk_path: no candidate is looked up in the depot
find_device_common_mk_path_result(views, connection) ==
    IF connection # "ok"
        THEN [outcome |-> "raised", value |-> NoDepotPath, checked |-> {}, views |-> <<>>]
        ELSE [outcome |-> "returned",
              value |-> IF device_common_paths(views) # <<>>
                            THEN device_common_paths(views)[1] ELSE NoDepotPath,
              checked |-> {},
              views |-> views]

\* _DEVICE_COMMON_REGEX, anchored with a lazy group 1: the leftmost match;
\* candidate = base_vendor_dir/device/<model>_common/device_common.mk with
\* model = the first piece of the last segment of base_vendor_dir
candidate(left) ==
    LET n == CHOOSE k \in DeviceCommonMatches(left) :
                 \A j \in DeviceCommonMatches(left) : k <= j
        base_vendor_dir == SubSeq(left, 1, n - 1)
        last_segment == base_vendor_dir[Len(base_vendor_dir)]
        model == last_segment[1]
    IN  base_vendor_dir \o <<DEVICE, <<model, "common">>, DEVICE_COMMON_MK>>

\* _extract_device_common_from_depots: the first candidate that validates;
\* validate_depot_path answers False when its command fails
RECURSIVE extract_device_common_from_depots(_, _, _, _)
extract_device_common_from_depots(left_depots, files, connection, checked) ==
    IF left_depots = <<>>
        THEN [outcome |-> "returned", value |-> NoDepotPath, checked |-> checked, views |-> <<>>]
    ELSE IF DeviceCommonMatches(Head(left_depots)) = {}
        THEN extract_device_common_from_depots(Tail(left_depots), files, connection, checked)
    ELSE IF connection = "ok" /\ validate_depot_path(files, candidate(Head(left_depots)))
        THEN [outcome |-> "returned", value |-> candidate(Head(left_depots)),
              checked |-> checked \cup {candidate(Head(left_depots))}, views |-> <<>>]
    ELSE extract_device_common_from_depots(Tail(left_depots), files, connection,
                                            checked \cup {candidate(Head(left_depots))})

\* the pieces of the model that hold a dot
DottedPieces == {"...", "v1.2", "common.mk"}

\* (^[^.]+?/)device/[^/]+?_common/ : a match of the pattern with no dot in
\* the text before it
DotlessMatches(depot_path) ==
    {n \in DeviceCommonMatches(depot_path) :
        \A k \in 1..(n - 1) : \A j \in 1..Len(depot_path[k]) :
            depot_path[k][j] \notin DottedPieces}

\* found_paths of find_device_common_mk_from_workspace, in table order
RECURSIVE complete_paths(_)
complete_paths(views) ==
    IF views = <<>> THEN <<>>
    ELSE (IF DotlessMatches(Head(views)) # {}
              THEN <<device_common_path(Head(views))>> ELSE <<>>)
             \o complete_paths(Tail(views))

\* unique_paths: the first occurrence of each path, in order
RECURSIVE unique_paths(_)
unique_paths(paths) ==
    IF paths = <<>> THEN <<>>
    ELSE LET front == unique_paths(SubSeq(paths, 1, Len(paths) - 1))
             path == paths[Len(paths)]
         IN  IF \E n \in 1..Len(front) : front[n] = path THEN front
             ELSE Append(front, path)

\* find_device_common_mk_from_workspace: a list of paths, none looked up
find_device_common_mk_from_workspace_result(views, connection) ==
    IF connection # "ok" THEN [outcome |-> "raised", value |-> <<>>]
    ELSE [outcome |-> "returned", value |-> unique_paths(complete_paths(views))]

NotParsed == [outcome |-> "pending", value |-> <<>>]

\* the view lines of the model's workspaces: two vendor trees whose name is
\* the model of their common directory, a tree named otherwise, a tree whose
\* name holds a dot, and a line that does not match
ViewPaths ==
    {<<<<"depot">>, <<"a", "vendor">>, DEVICE, <<"a", "common">>, DOTS>>,
     <<<<"depot">>, <<"b", "vendor">>, DEVICE, <<"b", "common">>, DOTS>>,
     <<<<"depot">>, <<"REL">>, DEVICE, <<"c", "common">>, DOTS>>,
     <<<<"depot">>, <<"v1.2">>, DEVICE, <<"a", "common">>, DOTS>>,
     <<<<"depot">>, <<"a", "vendor">>, <<"other">>, DOTS>>}

RECURSIVE ViewTables(_)
ViewTables(n) ==
    IF n = 0 THEN {<<>>}
    ELSE ViewTables(n - 1)
             \cup {Append(table, view) : table \in ViewTables(n - 1), view \in ViewPaths}

\* the device_common.mk files a depot of the model can hold
DepotFiles ==
    {device_common_path(view) : view \in {v \in ViewPaths : DeviceCommonMatches(v) # {}}}
        \cup {candidate(view) : view \in {v \in ViewPaths : DeviceCommonMatches(v) # {}}}

Resolvers == {"find_device_common_mk_path", "_extract_device_common_from_depots"}
NotCalled == [outcome |-> "pending", value |-> NoDepotPath, checked |-> {}, views |-> <<>>]

InitResolve ==
    /\ view_table \in ViewTables(MaxViews)
    /\ existing_files \in SUBSET DepotFiles
    /\ p4_connection \in {"ok", "down"}
    /\ resolver_result = [resolver \in Resolvers |-> NotCalled]
    /\ found_paths = NotParsed
    /\ RewriteIdle
    /\ TuningIdle
    /\ CascadeIdle
    /\ GuiIdle
    /\ RunIdle
    /\ MapIdle
    /\ DiffIdle
    /\ WalkerIdle
    /\ ParseIdle
    /\ ExtractIdle
    /\ CheckoutIdle
    /\ BringupIdle
    /\ LocalIdle

\* find_device_common_mk_path(workspace_name)
find_device_common_mk_path ==
    /\ resolver_result["find_device_common_mk_path"] = NotCalled
    /\ resolver_result' = [resolver_result EXCEPT !["find_device_common_mk_path"] =
                              find_device_common_mk_path_result(view_table, p4_connection)]
    /\ UNCHANGED <<view_table, existing_files, p4_connection, found_paths, notResolveVars>>

\* _extract_device_common_from_depots(left_depots)
extract_device_common ==
    /\ resolver_result["_extract_device_common_from_depots"] = NotCalled
    /\ resolver_result' = [resolver_result EXCEPT !["_extract_device_common_from_depots"] =
                              extract_device_common_from_depots(view_table, existing_files,
                                                                p4_connection, {})]
    /\ UNCHANGED <<view_table, existing_files, p4_connection, found_paths, notResolveVars>>

\* find_device_common_mk_from_workspace(workspace_name) of the parse tab
find_device_common_mk_from_workspace ==
    /\ found_paths = NotParsed
    /\ found_paths' = find_device_common_mk_from_workspace_result(view_table, p4_connection)
    /\ UNCHANGED <<view_table, existing_files, p4_connection, resolver_result, notResolveVars>>

NextResolve ==
    \/ find_device_common_mk_path
    \/ extract_device_common
    \/ find_device_common_mk_from_workspace

SpecResolve == InitResolve /\ [][NextResolve]_vars

\* the candidate a resolver builds from a view line
CandidateOf(resolver, view) ==
    IF resolver = "find_device_common_mk_path"
        THEN device_common_path(view) ELSE candidate(view)

\* the lines of the table that match the pattern and whose candidate exists
ValidatedLines(resolver) ==
    {n \in 1..Len(view_table) :
        /\ DeviceCommonMatches(view_table[n]) # {}
        /\ CandidateOf(resolver, view_table[n]) \in existing_files}

FirstValidated(resolver) ==
    IF ValidatedLines(resolver) = {} THEN NoDepotPath
    ELSE CandidateOf(resolver,
             view_table[CHOOSE n \in ValidatedLines(resolver) :
                            \A k \in ValidatedLines(resolver) : n <= k])

\* C20: with the server reachable, a workspace resolver returns the candidate
\* of the first view line, in table order, that matches device/<model>_common/
\* and whose candidate exists in the depot, and None without raising when no
\* candidate validates; a path it returns was looked up and found.
C20_FirstValidatedCandidate ==
    \A resolver \in Resolvers :
        resolver_result[resolver] # NotCalled =>
            /\ p4_connection = "ok" =>
                   /\ resolver_result[resolver].outcome = "returned"
                   /\ resolver_result[resolver].value = FirstValidated(resolver)
            /\ (resolver_result[resolver].outcome = "returned"
                    /\ resolver_result[resolver].value # NoDepotPath) =>
                   /\ resolver_result[resolver].value \in resolver_result[resolver].checked
                   /\ resolver_result[resolver].value \in existing_files

\* the lines of the table that match device/<model>_common/
MatchingLines == {n \in 1..Len(view_table) : DeviceCommonMatches(view_table[n]) # {}}

\* the one depot path a finished resolver handed back: the path itself, or
\* the single entry of the list of the parse tab's resolver
ReturnedPaths ==
    {resolver_result[resolver].value :
        resolver \in {r \in Resolvers : resolver_result[r].outcome = "returned"}}
    \cup (IF found_paths.outcome # "returned" THEN {}
          ELSE IF Len(found_paths.value) = 1 THEN {found_paths.value[1]}
          ELSE {NoDepotPath})

\* C21: on a view table with exactly one line that matches
\* device/<model>_common/, the resolvers that returned (the binding-based
\* ones and the regex-based one) returned the same depot path.
C21_BackendsAgree ==
    Cardinality(MatchingLines) = 1 => Cardinality(ReturnedPaths) <= 1

\* ---------------------------------------------------------------------------
\* The property block parsers on their own
\* ---------------------------------------------------------------------------
MaxBlock == 2

\* processes/tuning_process.py parse_properties_block: the code of
\* PropertyManager._parse_properties_block
tuning_parse_properties_block(block_lines) == PmParseFrom(block_lines, 1, <<>>)

Parsers == {"file_operations", "core_utils", "tuning_process"}

parse_by(parser, block_lines) ==
    CASE parser = "file_operations" -> parse_properties_block(block_lines)
      [] parser = "core_utils" -> PropertyManager_parse_properties_block(block_lines)
      [] parser = "tuning_process" -> tuning_parse_properties_block(block_lines)

\* the lines of a block: those of the rewrite model and a second binding of a
ParseLines == BodyLines \cup {<<"a", EQ, "2", NL>>}

InitParse ==
    /\ parse_input \in UNION {[1..m -> ParseLines] : m \in 0..MaxBlock}
    /\ parse_result = [parser \in Parsers |-> <<>>]
    /\ parse_done = {}
    /\ RewriteIdle
    /\ TuningIdle
    /\ CascadeIdle
    /\ GuiIdle
    /\ RunIdle
    /\ MapIdle
    /\ DiffIdle
    /\ WalkerIdle
    /\ ResolveIdle
    /\ ExtractIdle
    /\ CheckoutIdle
    /\ BringupIdle
    /\ LocalIdle

\* extract_properties_from_file hands a block to parse_properties_block
parse_file_operations ==
    /\ "file_operations" \notin parse_done
    /\ parse_result' = [parse_result EXCEPT
                           !["file_operations"] = parse_by("file_operations", parse_input)]
    /\ parse_done' = parse_done \cup {"file_operations"}
    /\ UNCHANGED <<parse_input, notParseVars>>

\* PropertyManager.extract_properties_from_file hands a block to its parser
parse_core_utils ==
    /\ "core_utils" \notin parse_done
    /\ parse_result' = [parse_result EXCEPT
                           !["core_utils"] = parse_by("core_utils", parse_input)]
    /\ parse_done' = parse_done \cup {"core_utils"}
    /\ UNCHANGED <<parse_input, notParseVars>>

\* load_properties_for_tuning hands a block to the tuning parser
parse_tuning_process ==
    /\ "tuning_process" \notin parse_done
    /\ parse_result' = [parse_result EXCEPT
                           !["tuning_process"] = parse_by("tuning_process", parse_input)]
    /\ parse_done' = parse_done \cup {"tuning_process"}
    /\ UNCHANGED <<parse_input, notParseVars>>

NextParse == parse_file_operations \/ parse_core_utils \/ parse_tuning_process

SpecParse == InitParse /\ [][NextParse]_vars

\* a line that binds a key: not blank, no full-line comment, no directive
\* marker, and an '=' in it
IsPropertyLine(line) ==
    /\ Strip(line) # <<>>
    /\ ~StartsWith(Strip(line), HASH)
    /\ ~Contains(line, <<PPO>>)
    /\ HasChar(line, EQ)

\* the value of a property line: the text after the first '=' without
\* everything from the first '#', without a trailing continuation backslash,
\* trimmed
ValueOfLine(line) ==
    LET after == After(Strip(line), EQ)
        uncommented == Strip(IF HasChar(after, HASH) THEN SplitFirst(after, HASH) ELSE after)
        ended == IF uncommented # <<>> /\ uncommented[Len(uncommented)] = BS
                     THEN SubSeq(uncommented, 1, Len(uncommented) - 1) ELSE uncommented
    IN  Strip(ended)

KeyOfLine(line) == Strip(Before(Strip(line), EQ))

\* the mapping the block lines bind: one entry per key of a property line,
\* with the value of the key's last property line
PropertyLines == {n \in 1..Len(parse_input) : IsPropertyLine(parse_input[n])}

BindsAsLines(properties) ==
    /\ \A n \in PropertyLines :
           \A later \in PropertyLines :
               (later >= n /\ KeyOfLine(parse_input[later]) = KeyOfLine(parse_input[n])
                   /\ \A k \in PropertyLines :
                          KeyOfLine(parse_input[k]) = KeyOfLine(parse_input[n]) => k <= later)
               => /\ DictHas(properties, KeyOfLine(parse_input[n]))
                  /\ DictGet(properties, KeyOfLine(parse_input[n])) = ValueOfLine(parse_input[later])
    /\ \A i \in 1..Len(properties) :
           \E n \in PropertyLines : KeyOfLine(parse_input[n]) = properties[i].k

\* C22: each parser maps, for every line that is not blank, no full-line
\* comment, holds no PRODUCT_PROPERTY_OVERRIDES marker and holds '=', the
\* trimmed text before the first '=' to the trimmed text after it without a
\* trailing continuation backslash and without everything from the first '#';
\* it holds no other key, and the last line of a key wins.
C22_ParseBlock ==
    \A parser \in parse_done : BindsAsLines(parse_result[parser])

\* ---------------------------------------------------------------------------
\* Block extraction on its own
\* ---------------------------------------------------------------------------
MaxFileLines == 3

\* PropertyManager._extract_block of core/core_utils.py: the code of
\* extract_block
PropertyManager_extract_block(ls, header, next_header_list) ==
    extract_block(ls, header, next_header_list)

\* the sections extract_properties_from_file asks for, with their end headers
SectionEnds ==
    [header \in {LMKD_HEADER, DHA_HEADER, CHIMERA_HEADER} |->
        CASE header = LMKD_HEADER -> LMKD_NEXT
          [] header = DHA_HEADER -> DHA_NEXT
          [] header = CHIMERA_HEADER -> CHIMERA_NEXT]

FileLines ==
    {<<SP>> \o LMKD_HEADER \o <<SP, NL>>,
     DHA_HEADER \o <<NL>>,
     CHIMERA_HEADER \o <<NL>>,
     <<"a", EQ, "1", NL>>,
     <<HASH, SP, NL>>,
     <<NL>>}

Extractors == {"extract_block", "PropertyManager._extract_block"}

InitExtract ==
    /\ extract_lines \in UNION {[1..m -> FileLines] : m \in 0..MaxFileLines}
    /\ wanted_header \in DOMAIN SectionEnds
    /\ extract_result = [extractor \in Extractors |-> <<>>]
    /\ extract_done = {}
    /\ RewriteIdle
    /\ TuningIdle
    /\ CascadeIdle
    /\ GuiIdle
    /\ RunIdle
    /\ MapIdle
    /\ DiffIdle
    /\ WalkerIdle
    /\ ResolveIdle
    /\ ParseIdle
    /\ CheckoutIdle
    /\ BringupIdle
    /\ LocalIdle

\* extract_block(lines, start_header, next_header_list)
call_extract_block ==
    /\ "extract_block" \notin extract_done
    /\ extract_result' = [extract_result EXCEPT !["extract_block"] =
                             extract_block(extract_lines, wanted_header, SectionEnds[wanted_header])]
    /\ extract_done' = extract_done \cup {"extract_block"}
    /\ UNCHANGED <<extract_lines, wanted_header, notExtractVars>>

\* PropertyManager._extract_block(lines, start_header, next_header_list)
call_PropertyManager_extract_block ==
    /\ "PropertyManager._extract_block" \notin extract_done
    /\ extract_result' = [extract_result EXCEPT !["PropertyManager._extract_block"] =
                             PropertyManager_extract_block(extract_lines, wanted_header,
                                                           SectionEnds[wanted_header])]
    /\ extract_done' = extract_done \cup {"PropertyManager._extract_block"}
    /\ UNCHANGED <<extract_lines, wanted_header, notExtractVars>>

NextExtract == call_extract_block \/ call_PropertyManager_extract_block

SpecExtract == InitExtract /\ [][NextExtract]_vars

\* the lines whose stripped content is the start header
HeaderLines == {n \in 1..Len(extract_lines) : Strip(extract_lines[n]) = wanted_header}

\* the lines after line s whose stripped content is an end header
EndLines(s) ==
    {n \in (s + 1)..Len(extract_lines) : Strip(extract_lines[n]) \in SectionEnds[wanted_header]}

\* slice is extract_lines[s:e] for the first header line s and the first end
\* line e after it, or the end of the file
IsSliceOfFirstSection(slice) ==
    \E s \in HeaderLines :
        /\ \A n \in HeaderLines : s <= n
        /\ \E e \in EndLines(s) \cup {Len(extract_lines) + 1} :
               /\ \A n \in EndLines(s) : e <= n
               /\ Len(slice) = e - s
               /\ \A k \in 1..(e - s) : slice[k] = extract_lines[s + k - 1]

\* C23: each implementation returns the half-open slice from the first line
\* whose stripped content equals the start header up to the first later line
\* whose stripped content is an end header (or the end of the lines), and
\* the empty sequence when no line equals the start header.
C23_ExtractBlock ==
    \A extractor \in extract_done :
        IF HeaderLines = {} THEN extract_result[extractor] = <<>>
        ELSE IsSliceOfFirstSection(extract_result[extractor])

\* both implementations returned a section that starts after the first line
\* and is closed by an end header
C23_Witness ==
    /\ extract_done = Extractors
    /\ \E s \in HeaderLines : s > 1 /\ EndLines(s) # {}
    /\ \A extractor \in Extractors : Len(extract_result[extractor]) = 1

\* ---------------------------------------------------------------------------
\* Continuation groups of a rewritten block
\* ---------------------------------------------------------------------------
MaxMembers == 2

\* key=1 as a member line of a group, with the continuation on every member
\* but the last
MemberLine(key, last) ==
    <<SP, SP>> \o key \o <<EQ, "1">> \o (IF last THEN <<NL>> ELSE <<SP, BS, NL>>)

\* the member lines of a group with distinct keys
MemberRuns(n) ==
    {[i \in 1..Len(keys) |-> MemberLine(keys[i], i = Len(keys))] :
        keys \in {ks \in UNION {[1..m -> Keys] : m \in 1..n} :
                     \A i, j \in 1..Len(ks) : i # j => ks[i] # ks[j]}}

\* an LMKD block with a group whose continuation ends on its last member,
\* after at most one regular line, closed by the next header or the file end
GroupBlocks ==
    {<<LMKD_HEADER \o <<NL>> >> \o before \o <<<<PPO, SP, PLUS, EQ, SP, BS, NL>>>>
            \o members \o after :
        before \in {<<>>, <<<<"a", EQ, "1", NL>>>>},
        members \in MemberRuns(MaxMembers),
        after \in {<<>>, <<CHIMERA_HEADER \o <<NL>> >>}}

InitGroups ==
    /\ lines \in GroupBlocks
    /\ new_properties \in Dicts(MaxProps)
    /\ once = <<>>
    /\ twice = <<>>
    /\ stage = "input"
    /\ TuningIdle
    /\ CascadeIdle
    /\ GuiIdle
    /\ RunIdle
    /\ MapIdle
    /\ DiffIdle
    /\ WalkerIdle
    /\ ResolveIdle
    /\ ParseIdle
    /\ ExtractIdle
    /\ CheckoutIdle
    /\ BringupIdle
    /\ LocalIdle

SpecGroups == InitGroups /\ [][NextRewrite]_vars

IsGroupHeaderLine(line) ==
    Contains(Strip(line), <<PPO>>) /\ Contains(Strip(line), <<PLUS, EQ>>)

IsMemberLine(line) ==
    /\ HasChar(Strip(line), EQ)
    /\ ~StartsWith(Strip(line), HASH)
    /\ ~Contains(line, <<PPO>>)

Continued(line) == EndsWith(Strip(line), BS)

\* line m of ls is a member of the group whose header is line h
MemberOf(ls, h, m) ==
    /\ h < m /\ m <= Len(ls)
    /\ IsGroupHeaderLine(ls[h])
    /\ \A n \in h..(m - 1) : Continued(ls[n])
    /\ \A n \in (h + 1)..m : IsMemberLine(ls[n])

\* the indentations a group of the original lines can show
DetectedIndents ==
    {Indentation(lines[n]) : n \in {k \in 1..Len(lines) : IsMemberLine(lines[k])}}
        \cup {DefaultIndent}

\* C24: in the rewritten block every continuation backslash, on a group
\* header or on a member, is followed by a member line of the group, so the
\* last member is the one without backslash and no header runs into a line
\* that is not its member; the members of a group share an indentation
\* detected in the original lines.
C24_GroupsWellFormed ==
    stage # "input" =>
        /\ \A h \in 1..Len(once) :
               ((IsGroupHeaderLine(once[h]) \/ \E g \in 1..(h - 1) : MemberOf(once, g, h))
                    /\ Continued(once[h]))
                   => (h < Len(once) /\ IsMemberLine(once[h + 1]))
        /\ \A h \in 1..Len(once) : \A m, n \in 1..Len(once) :
               (MemberOf(once, h, m) /\ MemberOf(once, h, n)) =>
                   /\ Indentation(once[m]) = Indentation(once[n])
                   /\ Indentation(once[m]) \in DetectedIndents

\* ---------------------------------------------------------------------------
\* End-to-end cascade of AutoResolver.resolve_cascading_branches
\* ---------------------------------------------------------------------------
\* the path the integration history leads to for the i-th branch of the
\* order, None from the first hop without source on
RECURSIVE ChainPath(_)
ChainPath(i) ==
    IF i = 1 THEN start_input
    ELSE IF ChainPath(i - 1) = None THEN None
    ELSE filelog[ChainPath(i - 1)]

\* every hop of the order has a source that exists
ChainComplete ==
    \A i \in 2..Len(branch_order) : ChainPath(i) # None /\ ChainPath(i) \in depot_files

\* C25: the cascade binds the first branch to the start path and every later
\* branch to the integration source of the path bound to the branch before
\* it, and nothing else; with a complete chain of existing sources it raises
\* only when a map or sync command fails.
C25_EndToEndCascade ==
    mode = "core" =>
        /\ pc = "returned" =>
               /\ ChainComplete
               /\ \A i \in 1..Len(branch_order) : result[branch_order[i]] = ChainPath(i)
               /\ \A b \in BranchNames :
                      (\A i \in 1..Len(branch_order) : branch_order[i] # b) => result[b] = Empty
        /\ (pc = "raised" /\ ChainComplete) => error.kind = "Command failed"

\* the cascade returned REL, FLUMEN and BENI from a start path in REL
C25_Witness ==
    /\ mode = "core" /\ pc = "returned"
    /\ result = [REL |-> DeviceCommon.REL, FLUMEN |-> DeviceCommon.FLUMEN,
                 BENI |-> DeviceCommon.BENI]

\* ---------------------------------------------------------------------------
\* Checkout into the run's changelist and the write that follows
\* ---------------------------------------------------------------------------
MaxQueued == 2

\* where p4 opened finds a file: not opened, opened in the run's changelist,
\* in another numbered changelist, or in the default changelist (no number
\* to parse)
OpenStates == {"not opened", "run changelist", "other changelist", "default changelist"}
Unwritten == "unwritten"

InitCheckout ==
    /\ opened_in \in [1..MaxQueued -> OpenStates]
    /\ checkout_idx = 1
    /\ checkout_outcome = "pending"
    /\ written_in = [file \in 1..MaxQueued |-> Unwritten]
    /\ summary_logged = FALSE
    /\ RewriteIdle
    /\ TuningIdle
    /\ CascadeIdle
    /\ GuiIdle
    /\ RunIdle
    /\ MapIdle
    /\ DiffIdle
    /\ WalkerIdle
    /\ ResolveIdle
    /\ ParseIdle
    /\ ExtractIdle
    /\ BringupIdle
    /\ LocalIdle

\* checkout_file_silent(target_depot, changelist_id): p4 edit for a file that
\* is not opened; nothing for one already in the changelist; for one in another
\* changelist the user is asked, p4 reopen on yes and nothing on no; p4 edit
\* for an opened file whose changelist number is not found, which leaves the
\* file where it is. A failing command raises.
checkout_file_silent ==
    /\ checkout_idx <= MaxQueued
    /\ checkout_outcome = "pending"
    /\ \E command_ok \in BOOLEAN, response \in BOOLEAN :
         LET state == opened_in[checkout_idx]
         IN  CASE state = "not opened" ->
                    IF command_ok
                    THEN /\ opened_in' = [opened_in EXCEPT ![checkout_idx] = "run changelist"]
                         /\ checkout_outcome' = "returned"
                    ELSE /\ checkout_outcome' = "raised"
                         /\ UNCHANGED opened_in
               [] state = "run changelist" ->
                    /\ checkout_outcome' = "returned"
                    /\ UNCHANGED opened_in
               [] state = "other changelist" ->
                    IF ~response
                    THEN /\ checkout_outcome' = "returned"
                         /\ UNCHANGED opened_in
                    ELSE IF command_ok
                    THEN /\ opened_in' = [opened_in EXCEPT ![checkout_idx] = "run changelist"]
                         /\ checkout_outcome' = "returned"
                    ELSE /\ checkout_outcome' = "raised"
                         /\ UNCHANGED opened_in
               [] state = "default changelist" ->
                    /\ checkout_outcome' = IF command_ok THEN "returned" ELSE "raised"
                    /\ UNCHANGED opened_in
    /\ UNCHANGED <<checkout_idx, written_in, summary_logged, notCheckoutVars>>

\* update_lmkd_chimera after a checkout that returned: the local file is
\* overwritten unless the update raises
update_after_checkout ==
    /\ checkout_idx <= MaxQueued
    /\ checkout_outcome = "returned"
    /\ \E update_ok \in BOOLEAN :
         written_in' = IF update_ok
                       THEN [written_in EXCEPT ![checkout_idx] = opened_in[checkout_idx]]
                       ELSE written_in
    /\ checkout_idx' = checkout_idx + 1
    /\ checkout_outcome' = "pending"
    /\ UNCHANGED <<opened_in, summary_logged, notCheckoutVars>>

\* except Exception: the failure is logged and the loop goes to the next file
skip_after_failed_checkout ==
    /\ checkout_idx <= MaxQueued
    /\ checkout_outcome = "raised"
    /\ checkout_idx' = checkout_idx + 1
    /\ checkout_outcome' = "pending"
    /\ UNCHANGED <<opened_in, written_in, summary_logged, notCheckoutVars>>

\* step 8: "[SUMMARY] All changes are in shared changelist: <id>"
log_summary ==
    /\ checkout_idx > MaxQueued
    /\ ~summary_logged
    /\ summary_logged' = TRUE
    /\ UNCHANGED <<opened_in, checkout_idx, checkout_outcome, written_in, notCheckoutVars>>

NextCheckout ==
    \/ checkout_file_silent
    \/ update_after_checkout
    \/ skip_after_failed_checkout
    \/ log_summary

SpecCheckout == InitCheckout /\ [][NextCheckout]_vars

\* C26: every file the run overwrote was opened in the run's changelist when
\* it was written, whatever its state before and whatever the user answered,
\* so the summary line of the run is true when it is logged.
C26_AllWritesInRunChangelist ==
    \A file \in 1..MaxQueued :
        written_in[file] # Unwritten => written_in[file] = "run changelist"

\* ---------------------------------------------------------------------------
\* Bring-up: the update decision and the copy of VINCE's sections
\* ---------------------------------------------------------------------------
MaxTargetLen == 3

\* "<header>" in content, for the content of a file given by its lines
InContent(ls, header) == \E n \in 1..Len(ls) : Contains(ls[n], header)

\* validate_properties_exist
validate_properties_exist(ls) ==
    [has_lmkd |-> InContent(ls, LMKD_HEADER) \/ InContent(ls, DHA_HEADER),
     has_chimera |-> InContent(ls, CHIMERA_HEADER)]

\* extract_properties_from_file of core/file_operations.py; the mapping with
\* two empty categories stands for the None it returns when nothing is found
fo_extract_properties_from_file(ls) ==
    LET b1 == extract_block(ls, LMKD_HEADER, LMKD_NEXT)
        lmkd_block == IF b1 = <<>> THEN extract_block(ls, DHA_HEADER, DHA_NEXT) ELSE b1
        chimera_block == extract_block(ls, CHIMERA_HEADER, CHIMERA_NEXT)
    IN  [LMKD |-> IF lmkd_block # <<>> THEN parse_properties_block(lmkd_block) ELSE <<>>,
         Chimera |-> IF chimera_block # <<>> THEN parse_properties_block(chimera_block)
                     ELSE <<>>]

\* compare_properties_between_files: None when a file yields no properties
compare_properties_between_files(file1, file2) ==
    LET props1 == fo_extract_properties_from_file(file1)
        props2 == fo_extract_properties_from_file(file2)
    IN  IF props1 = EmptyMapping \/ props2 = EmptyMapping
        THEN [failed |-> TRUE, differences |-> <<>>]
        ELSE [failed |-> FALSE, differences |-> compare_properties(props1, props2)]

\* compare_target_with_vince: True only for a comparison that found records
compare_target_with_vince(vince, target) ==
    LET compared == compare_properties_between_files(vince, target)
    IN  IF compared.failed THEN FALSE
        ELSE compared.differences # <<>>

\* run_bringup_process, step 5, for one target
needs_update(vince, target) ==
    LET exist == validate_properties_exist(target)
    IN  IF ~exist.has_lmkd /\ ~exist.has_chimera THEN TRUE
        ELSE compare_target_with_vince(vince, target)

\* replace_block
replace_block(target_lines, block, header, next_header_list) ==
    LET b == find_block_boundaries(target_lines, header, next_header_list)
    IN  IF b.start = 0 THEN target_lines
        ELSE SubSeq(target_lines, 1, b.start - 1) \o block
                 \o SubSeq(target_lines, b.end, Len(target_lines))

\* the end headers update_lmkd_chimera uses for every section
UPDATE_NEXT == {<<HASH>>, <<>>}

\* update_lmkd_chimera: VINCE's blocks replace the target's sections, and the
\* sections the target lacks are added after a blank line at the end
update_lmkd_chimera(vince_lines, target_lines) ==
    LET l1 == extract_block(vince_lines, LMKD_HEADER, UPDATE_NEXT)
        lmkd_block == IF l1 = <<>> THEN extract_block(vince_lines, DHA_HEADER, UPDATE_NEXT)
                      ELSE l1
        chimera_block == extract_block(vince_lines, CHIMERA_HEADER, UPDATE_NEXT)
        has_lmkd == InContent(target_lines, LMKD_HEADER)
        has_dha == InContent(target_lines, DHA_HEADER)
        has_chimera == InContent(target_lines, CHIMERA_HEADER)
        u1 == IF has_lmkd
              THEN replace_block(target_lines, lmkd_block, LMKD_HEADER, UPDATE_NEXT)
              ELSE IF has_dha
              THEN replace_block(target_lines, lmkd_block, DHA_HEADER, UPDATE_NEXT)
              ELSE target_lines
        u2 == IF has_chimera
              THEN replace_block(u1, chimera_block, CHIMERA_HEADER, UPDATE_NEXT)
              ELSE u1
        sections_to_add ==
            (IF ~has_lmkd /\ ~has_dha /\ lmkd_block # <<>> THEN <<lmkd_block>> ELSE <<>>)
                \o (IF ~has_chimera /\ chimera_block # <<>> THEN <<chimera_block>> ELSE <<>>)
        ended == IF u2 # <<>> /\ ~EndsWith(u2[Len(u2)], NL)
                 THEN [u2 EXCEPT ![Len(u2)] = @ \o <<NL>>] ELSE u2
    IN  IF sections_to_add = <<>> THEN u2
        ELSE IF Len(sections_to_add) = 1 THEN ended \o <<<<NL>>>> \o sections_to_add[1]
        ELSE ended \o <<<<NL>>>> \o sections_to_add[1] \o <<<<NL>>>> \o sections_to_add[2]

\* the lines of the model's files
PropertyFileLines ==
    {LMKD_HEADER \o <<NL>>,
     CHIMERA_HEADER \o <<NL>>,
     <<"a", EQ, "1", NL>>,
     <<"b", EQ, "2", NL>>,
     <<NL>>}

\* VINCE files that pass step 4: a section of each kind with and without a
\* blank line between them, one section only, a blank line inside a section
VinceFiles ==
    {<<LMKD_HEADER \o <<NL>>, <<"a", EQ, "1", NL>> >>,
     <<CHIMERA_HEADER \o <<NL>>, <<"b", EQ, "2", NL>> >>,
     <<LMKD_HEADER \o <<NL>>, <<"a", EQ, "1", NL>>, <<NL>>,
       CHIMERA_HEADER \o <<NL>>, <<"b", EQ, "2", NL>> >>,
     <<LMKD_HEADER \o <<NL>>, <<"a", EQ, "1", NL>>,
       CHIMERA_HEADER \o <<NL>>, <<"b", EQ, "2", NL>> >>,
     <<LMKD_HEADER \o <<NL>>, <<"a", EQ, "1", NL>>, <<NL>>, <<"b", EQ, "2", NL>> >>}

InitBringup ==
    /\ vince_file \in VinceFiles
    /\ target_file \in UNION {[1..m -> PropertyFileLines] : m \in 0..MaxTargetLen}
    /\ target_original = target_file
    /\ first_decision = "pending"
    /\ second_decision = "pending"
    /\ bringup_stage = "compare"
    /\ RewriteIdle
    /\ TuningIdle
    /\ CascadeIdle
    /\ GuiIdle
    /\ RunIdle
    /\ MapIdle
    /\ DiffIdle
    /\ WalkerIdle
    /\ ResolveIdle
    /\ ParseIdle
    /\ ExtractIdle
    /\ CheckoutIdle
    /\ LocalIdle

\* step 5 of the first run: the target is queued or left alone
first_compare ==
    /\ bringup_stage = "compare"
    /\ first_decision' = IF needs_update(vince_file, target_file) THEN "scheduled" ELSE "skipped"
    /\ bringup_stage' = IF needs_update(vince_file, target_file) THEN "update" ELSE "done"
    /\ UNCHANGED <<vince_file, target_file, target_original, second_decision, notBringupVars>>

\* step 7 of the first run: the queued target is rewritten from VINCE
first_update ==
    /\ bringup_stage = "update"
    /\ target_file' = update_lmkd_chimera(vince_file, target_file)
    /\ bringup_stage' = "updated"
    /\ UNCHANGED <<vince_file, target_original, first_decision, second_decision, notBringupVars>>

\* step 5 of a second run with the same inputs
second_compare ==
    /\ bringup_stage = "updated"
    /\ second_decision' = IF needs_update(vince_file, target_file) THEN "scheduled" ELSE "skipped"
    /\ bringup_stage' = "done"
    /\ UNCHANGED <<vince_file, target_file, target_original, first_decision, notBringupVars>>

NextBringup == first_compare \/ first_update \/ second_compare

SpecBringup == InitBringup /\ [][NextBringup]_vars

\* the properties of the two sections as the tuning loader reads them
PropertiesDiffer(file1, file2) ==
    \/ ~DictEq(extract_properties_from_file(file1).LMKD,
               extract_properties_from_file(file2).LMKD)
    \/ ~DictEq(extract_properties_from_file(file1).Chimera,
               extract_properties_from_file(file2).Chimera)

HasNeitherSection(ls) ==
    /\ ~validate_properties_exist(ls).has_lmkd
    /\ ~validate_properties_exist(ls).has_chimera

\* C27: step 5 queues the target exactly when its LMKD or Chimera properties
\* differ from VINCE's or the target has neither section.
C27_UpdateDecision ==
    first_decision # "pending" =>
        (first_decision = "scheduled"
            <=> (HasNeitherSection(target_original)
                    \/ PropertiesDiffer(vince_file, target_original)))

\* the lines of ls inside its LMKD (or DHA) section and its Chimera section,
\* each section running up to the next section's header
SectionRange(ls, header, next_header_list) ==
    LET b == find_block_boundaries(ls, header, next_header_list)
    IN  IF b.start = 0 THEN {} ELSE b.start..(b.end - 1)

LmkdRange(ls) ==
    IF SectionRange(ls, LMKD_HEADER, LMKD_NEXT) # {}
    THEN SectionRange(ls, LMKD_HEADER, LMKD_NEXT)
    ELSE SectionRange(ls, DHA_HEADER, DHA_NEXT)

ChimeraRange(ls) == SectionRange(ls, CHIMERA_HEADER, CHIMERA_NEXT)

\* the lines of ls at the indexes of range that are not blank, in order
RECURSIVE NonBlankIn(_, _, _)
NonBlankIn(ls, range, n) ==
    IF n > Len(ls) THEN <<>>
    ELSE (IF n \in range /\ Strip(ls[n]) # <<>> THEN <<ls[n]>> ELSE <<>>)
             \o NonBlankIn(ls, range, n + 1)

OutsideSections(ls) == (1..Len(ls)) \ (LmkdRange(ls) \cup ChimeraRange(ls))

\* C28: after the update the target's LMKD (or DHA) section and Chimera
\* section hold the lines of VINCE's section of that kind, for each kind
\* VINCE has, and the target's lines outside the two sections are the ones
\* it had before (blank separator lines aside).
C28_SectionsCopied ==
    (bringup_stage \in {"updated", "done"} /\ first_decision = "scheduled") =>
        /\ LmkdRange(vince_file) # {} =>
               NonBlankIn(target_file, LmkdRange(target_file), 1)
                   = NonBlankIn(vince_file, LmkdRange(vince_file), 1)
        /\ ChimeraRange(vince_file) # {} =>
               NonBlankIn(target_file, ChimeraRange(target_file), 1)
                   = NonBlankIn(vince_file, ChimeraRange(vince_file), 1)
        /\ NonBlankIn(target_file, OutsideSections(target_file), 1)
               = NonBlankIn(target_original, OutsideSections(target_original), 1)

\* C29: a second run after an update of the target finds no difference for
\* it and queues nothing, so it creates no changelist.
C29_BringupConverges == second_decision # "pending" => second_decision = "skipped"

\* ---------------------------------------------------------------------------
\* Local path of a depot path and the client side of its mapping line
\* ---------------------------------------------------------------------------
MaxSegments == 2

SLASHES == "//"
SLASH == "/"
OS_SEP == "os.sep"
WORKSPACE_ROOT == "WORKSPACE_ROOT"

\* str.replace("/", os.sep)
ReplaceSlash(text) == [n \in 1..Len(text) |-> IF text[n] = SLASH THEN OS_SEP ELSE text[n]]

\* os.path.join(root, relative): a relative part that starts with the
\* separator replaces the root
path_join(root, relative) ==
    IF relative # <<>> /\ relative[1] = OS_SEP THEN relative
    ELSE <<root, OS_SEP>> \o relative

\* depot_to_local_path
depot_to_local_path(depot_path) ==
    LET relative_path ==
            IF Len(depot_path) >= 3 /\ SubSeq(depot_path, 1, 3) = <<SLASHES, "depot", SLASH>>
            THEN SubSeq(depot_path, 4, Len(depot_path))
            ELSE IF depot_path # <<>> /\ depot_path[1] = SLASHES
            THEN Tail(depot_path)
            ELSE depot_path
    IN  path_join(WORKSPACE_ROOT, ReplaceSlash(relative_path))

\* the mapping line P4ClientMapper.map_depots appends for a depot path
P4ClientMapper_mapping_line(depot_path) ==
    <<TAB>> \o depot_path \o <<TAB, SLASHES, ClientName, SLASH>> \o Tail(depot_path)

\* depot paths of one to MaxSegments names
RECURSIVE SegmentRuns(_)
SegmentRuns(n) ==
    IF n = 1 THEN {<<name>> : name \in {"depot", "PROD", "device", "a.mk"}}
    ELSE SegmentRuns(n - 1)
             \cup {run \o <<SLASH, name>> :
                      run \in SegmentRuns(n - 1), name \in {"depot", "PROD", "device", "a.mk"}}

Mappers == {"_map_client_depots_core", "P4ClientMapper"}

InitLocal ==
    /\ mapped_depot_path \in {<<SLASHES>> \o run : run \in SegmentRuns(MaxSegments)}
    /\ local_path = <<>>
    /\ view_line = [m \in Mappers |-> <<>>]
    /\ RewriteIdle
    /\ TuningIdle
    /\ CascadeIdle
    /\ GuiIdle
    /\ RunIdle
    /\ MapIdle
    /\ DiffIdle
    /\ WalkerIdle
    /\ ResolveIdle
    /\ ParseIdle
    /\ ExtractIdle
    /\ CheckoutIdle
    /\ BringupIdle

\* depot_to_local_path(depot_path)
call_depot_to_local_path ==
    /\ local_path = <<>>
    /\ local_path' = depot_to_local_path(mapped_depot_path)
    /\ UNCHANGED <<mapped_depot_path, view_line, notLocalVars>>

\* _map_client_depots_core builds the mapping line of the path
core_mapping_line ==
    /\ view_line["_map_client_depots_core"] = <<>>
    /\ view_line' = [view_line EXCEPT
                        !["_map_client_depots_core"] = mapping_line(mapped_depot_path)]
    /\ UNCHANGED <<mapped_depot_path, local_path, notLocalVars>>

\* P4ClientMapper.map_depots builds the mapping line of the path
mapper_mapping_line ==
    /\ view_line["P4ClientMapper"] = <<>>
    /\ view_line' = [view_line EXCEPT
                        !["P4ClientMapper"] = P4ClientMapper_mapping_line(mapped_depot_path)]
    /\ UNCHANGED <<mapped_depot_path, local_path, notLocalVars>>

NextLocal == call_depot_to_local_path \/ core_mapping_line \/ mapper_mapping_line

SpecLocal == InitLocal /\ [][NextLocal]_vars

\* the client side of a mapping line: what follows its second tab
ClientSide(line) ==
    LET tabs == {n \in 1..Len(line) : line[n] = TAB}
        last == CHOOSE n \in tabs : \A k \in tabs : k <= n
    IN  SubSeq(line, last + 1, Len(line))

\* the file a sync places for a mapping line: the workspace root joined with
\* the client side below //<client>/
SyncedFile(line) ==
    <<WORKSPACE_ROOT, OS_SEP>>
        \o ReplaceSlash(SubSeq(ClientSide(line), 4, Len(ClientSide(line))))

\* C30: the local path of a depot path is the file that syncing the path
\* places in the workspace under the mapping line written for it.
C30_LocalPathAgrees ==
    \A m \in Mappers :
        (local_path # <<>> /\ view_line[m] # <<>>) => local_path = SyncedFile(view_line[m])

====
